---- MODULE Spec2Model ----
(***************************************************************************)
(* A model of LieOTAlign: the PDB loader and writer, the greedy            *)
(* correspondence decoder, the d0 scale constant, the driver main() of     *)
(* gemini_tm_align_final.py and the log parser of compare_results.py.      *)
(*                                                                         *)
(* Text is modelled at character level: a string is a sequence of          *)
(* one-character strings, a PDB record is the fixed-column line the code   *)
(* slices.  Numbers printed or parsed with a fixed number of decimals are  *)
(* integers in units of the last printed decimal (coordinates in 1/1000).  *)
(***************************************************************************)
EXTENDS Integers, Sequences, FiniteSets, TLC

\* ------------------------------------------------------------------ bounds
\* Longest input file, in lines, of the loader/writer specification.
MaxLines == 3

\* ----------------------------------------------------------- Python strings
Min(a, b) == IF a <= b THEN a ELSE b

None == "None"

Spaces(n) == [i \in 1..n |-> " "]

\* str.isspace for the characters that occur in the modelled text
IsSpace(c) == c \in {" ", "\n", "\t", "\r"}

\* s[a:b] of Python for 0 <= a
Slice(s, a, b) == SubSeq(s, a + 1, IF b < Len(s) THEN b ELSE Len(s))

\* s[a:] of Python
SliceFrom(s, a) == SubSeq(s, a + 1, Len(s))

startswith(s, p) == Len(s) >= Len(p) /\ SubSeq(s, 1, Len(p)) = p

RECURSIVE lstrip(_)
lstrip(s) == IF s # <<>> /\ IsSpace(Head(s)) THEN lstrip(Tail(s)) ELSE s

RECURSIVE rstrip(_)
rstrip(s) ==
    IF s # <<>> /\ IsSpace(s[Len(s)]) THEN rstrip(SubSeq(s, 1, Len(s) - 1)) ELSE s

strip(s) == rstrip(lstrip(s))

Digits == <<"0", "1", "2", "3", "4", "5", "6", "7", "8", "9">>

IsDigit(c) == \E i \in 1..10 : Digits[i] = c

DigitVal(c) == (CHOOSE i \in 1..10 : Digits[i] = c) - 1

\* the decimal digits of a natural number, most significant first
RECURSIVE NatDigits(_)
NatDigits(n) ==
    IF n < 10 THEN <<Digits[n + 1]>>
    ELSE Append(NatDigits(n \div 10), Digits[(n % 10) + 1])

\* the value of a string of digits
RECURSIVE DigitsVal(_)
DigitsVal(s) ==
    IF s = <<>> THEN 0
    ELSE 10 * DigitsVal(SubSeq(s, 1, Len(s) - 1)) + DigitVal(s[Len(s)])

Pow10(k) == IF k = 0 THEN 1 ELSE IF k = 1 THEN 10 ELSE IF k = 2 THEN 100
            ELSE IF k = 3 THEN 1000 ELSE IF k = 4 THEN 10000 ELSE 100000

\* the digits of n, left-padded with zeros to k digits
ZeroPad(n, k) ==
    LET d == NatDigits(n)
    IN  IF Len(d) >= k THEN d ELSE [i \in 1..(k - Len(d)) |-> "0"] \o d

\* f"{v:W.Df}" for a value v given in units of 10^-D: sign, integer part, ".",
\* D decimals, right-justified in W columns and wider when it does not fit.
FormatFixed(v, W, D) ==
    LET a    == IF v < 0 THEN -v ELSE v
        body == (IF v < 0 THEN <<"-">> ELSE <<>>)
                \o NatDigits(a \div Pow10(D)) \o <<".">> \o ZeroPad(a % Pow10(D), D)
    IN  IF Len(body) >= W THEN body ELSE Spaces(W - Len(body)) \o body

\* float(s) for plain decimal text: surrounding blanks, an optional sign, digits
\* with at most one point and at least one digit.  Anything else is a ValueError.
FloatParses(s) ==
    LET t == strip(s)
        u == IF t # <<>> /\ t[1] \in {"+", "-"} THEN Tail(t) ELSE t
    IN  /\ u # <<>>
        /\ \A i \in 1..Len(u) : IsDigit(u[i]) \/ u[i] = "."
        /\ Cardinality({i \in 1..Len(u) : u[i] = "."}) <= 1
        /\ \E i \in 1..Len(u) : IsDigit(u[i])

\* the value of float(s) in 1/1000 (texts with at most three decimals)
FloatMilli(s) ==
    LET t    == strip(s)
        neg  == t[1] = "-"
        u    == IF t[1] \in {"+", "-"} THEN Tail(t) ELSE t
        dots == {i \in 1..Len(u) : u[i] = "."}
        p    == IF dots = {} THEN Len(u) + 1 ELSE CHOOSE i \in dots : TRUE
        ip   == SubSeq(u, 1, p - 1)
        fr   == SubSeq(u, p + 1, Len(u))
        fr3  == SubSeq(fr \o <<"0", "0", "0">>, 1, 3)
        a    == 1000 * DigitsVal(ip) + DigitsVal(fr3)
    IN  IF neg THEN -a ELSE a

\* ------------------------------------------------------- PDB parsing & writing
AA_3_TO_1 == {
    <<<<"A", "L", "A">>, "A">>, <<<<"A", "R", "G">>, "R">>, <<<<"A", "S", "N">>, "N">>,
    <<<<"A", "S", "P">>, "D">>, <<<<"C", "Y", "S">>, "C">>, <<<<"G", "L", "N">>, "Q">>,
    <<<<"G", "L", "U">>, "E">>, <<<<"G", "L", "Y">>, "G">>, <<<<"H", "I", "S">>, "H">>,
    <<<<"I", "L", "E">>, "I">>, <<<<"L", "E", "U">>, "L">>, <<<<"L", "Y", "S">>, "K">>,
    <<<<"M", "E", "T">>, "M">>, <<<<"P", "H", "E">>, "F">>, <<<<"P", "R", "O">>, "P">>,
    <<<<"S", "E", "R">>, "S">>, <<<<"T", "H", "R">>, "T">>, <<<<"T", "R", "P">>, "W">>,
    <<<<"T", "Y", "R">>, "Y">>, <<<<"V", "A", "L">>, "V">>
  }

\* AA_3_TO_1.get(code, 'X')
AA3Get(code) ==
    IF \E e \in AA_3_TO_1 : e[1] = code
    THEN (CHOOSE e \in AA_3_TO_1 : e[1] = code)[2]
    ELSE "X"

ATOM == <<"A", "T", "O", "M">>

CA == <<"C", "A">>

\* `if chain_id`: None and the empty string are both false, and the model writes
\* both as the empty sequence
NoChain == <<>>

\* the loop-carried state of parse_pdb; exc is None until a line raises
EmptyAcc ==
    [coords |-> <<>>, atom_lines |-> <<>>, sequence |-> <<>>,
     seen_residues |-> {}, exc |-> None]

Raise(acc, e) == [acc EXCEPT !.exc = e]

\* the three coordinate fields of a record, as text
CoordFields(line) == <<Slice(line, 30, 38), Slice(line, 38, 46), Slice(line, 46, 54)>>

\* ParseLine with the residue marked as seen before the alternate location is
\* looked at (a mutant)
ParseLine_SeenBeforeAltLoc(acc, line, chain_id, c_alpha_only) ==
    IF ~startswith(line, ATOM) THEN acc
    ELSE IF c_alpha_only /\ strip(Slice(line, 12, 16)) # CA THEN acc
    ELSE IF chain_id # NoChain /\ Len(line) <= 21 THEN Raise(acc, "IndexError")
    ELSE IF chain_id # NoChain /\ strip(<<line[22]>>) # chain_id THEN acc
    ELSE IF Len(line) <= 21 THEN Raise(acc, "IndexError")
    ELSE LET residue_uid == <<line[22], Slice(line, 22, 27)>>
             f == CoordFields(line)
             acc1 == IF c_alpha_only
                     THEN [acc EXCEPT !.seen_residues = @ \cup {residue_uid}]
                     ELSE acc
         IN  IF c_alpha_only /\ residue_uid \in acc.seen_residues THEN acc
             ELSE IF line[17] \notin {" ", "A"} THEN acc1
             ELSE IF \E k \in 1..3 : ~FloatParses(f[k])
                  THEN Raise(acc1, "ValueError")
                  ELSE [acc1 EXCEPT
                          !.coords = Append(@, [k \in 1..3 |-> FloatMilli(f[k])]),
                          !.atom_lines = Append(@, line),
                          !.sequence = Append(@, AA3Get(Slice(line, 17, 20)))]

\* ParseLine with a record whose coordinates are no numbers skipped instead of
\* raising (a mutant)
ParseLine_SkipBadCoords(acc, line, chain_id, c_alpha_only) ==
    IF ~startswith(line, ATOM) THEN acc
    ELSE IF c_alpha_only /\ strip(Slice(line, 12, 16)) # CA THEN acc
    ELSE IF chain_id # NoChain /\ Len(line) <= 21 THEN Raise(acc, "IndexError")
    ELSE IF chain_id # NoChain /\ strip(<<line[22]>>) # chain_id THEN acc
    ELSE IF Len(line) <= 16 THEN Raise(acc, "IndexError")
    ELSE IF line[17] \notin {" ", "A"} THEN acc
    ELSE IF c_alpha_only /\ Len(line) <= 21 THEN Raise(acc, "IndexError")
    ELSE LET residue_uid == <<line[22], Slice(line, 22, 27)>>
             f == CoordFields(line)
         IN  IF c_alpha_only /\ residue_uid \in acc.seen_residues THEN acc
             ELSE IF \E k \in 1..3 : ~FloatParses(f[k]) THEN acc
             ELSE [acc EXCEPT
                     !.seen_residues = IF c_alpha_only THEN @ \cup {residue_uid} ELSE @,
                     !.coords = Append(@, [k \in 1..3 |-> FloatMilli(f[k])]),
                     !.atom_lines = Append(@, line),
                     !.sequence = Append(@, AA3Get(Slice(line, 17, 20)))]

\* the body of the loop `for line in f` of parse_pdb, for one line
ParseLine(acc, line, chain_id, c_alpha_only) ==
    IF ~startswith(line, ATOM) THEN acc
    ELSE IF c_alpha_only /\ strip(Slice(line, 12, 16)) # CA THEN acc
    ELSE IF chain_id # NoChain /\ Len(line) <= 21 THEN Raise(acc, "IndexError")
    ELSE IF chain_id # NoChain /\ strip(<<line[22]>>) # chain_id THEN acc
    ELSE IF Len(line) <= 16 THEN Raise(acc, "IndexError")
    ELSE IF line[17] \notin {" ", "A"} THEN acc
    ELSE IF c_alpha_only /\ Len(line) <= 21 THEN Raise(acc, "IndexError")
    ELSE LET residue_uid == <<line[22], Slice(line, 22, 27)>>
             f == CoordFields(line)
         IN  IF c_alpha_only /\ residue_uid \in acc.seen_residues THEN acc
             ELSE LET acc1 == IF c_alpha_only
                              THEN [acc EXCEPT !.seen_residues = @ \cup {residue_uid}]
                              ELSE acc
                  IN  IF \E k \in 1..3 : ~FloatParses(f[k])
                      THEN Raise(acc1, "ValueError")
                      ELSE [acc1 EXCEPT
                              !.coords = Append(@, [k \in 1..3 |-> FloatMilli(f[k])]),
                              !.atom_lines = Append(@, line),
                              !.sequence = Append(@, AA3Get(Slice(line, 17, 20)))]

\* the loop over the lines of the file, left at the first line that raises
RECURSIVE ParseLines(_, _, _, _)
ParseLines(acc, lines, chain_id, c_alpha_only) ==
    IF lines = <<>> \/ acc.exc # None THEN acc
    ELSE ParseLines(ParseLine(acc, Head(lines), chain_id, c_alpha_only),
                    Tail(lines), chain_id, c_alpha_only)

\* What open(file_path) finds: a readable file with its lines, no file at all
\* (FileNotFoundError), or a path that exists and cannot be opened for reading
\* (a directory, no permission: IsADirectoryError, PermissionError).
Readable(lines) == [kind |-> "file", lines |-> lines]
Absent == [kind |-> "absent", lines |-> <<>>]
Unopenable == [kind |-> "unopenable", lines |-> <<>>]

EmptyResult == [kind |-> "none", exc |-> None, coords |-> <<>>, atom_lines |-> <<>>,
                sequence |-> <<>>]

Raised(e) == [EmptyResult EXCEPT !.kind = "raise", !.exc = e]

\* the `except FileNotFoundError` clause of parse_pdb: what an error of open()
\* becomes
OpenFailure(entry) ==
    IF entry.kind = "absent" THEN EmptyResult ELSE Raised("OSError")

\* ParseReturn without the `if not coords` test (a mutant)
ParseReturn_NoEmptyTest(acc) ==
    IF acc.exc # None THEN Raised(acc.exc)
    ELSE [kind |-> "value", exc |-> None, coords |-> acc.coords,
          atom_lines |-> acc.atom_lines, sequence |-> acc.sequence]

\* the `if not coords` test and the return of parse_pdb
ParseReturn(acc) ==
    IF acc.exc # None THEN Raised(acc.exc)
    ELSE IF acc.coords = <<>> THEN EmptyResult
    ELSE [kind |-> "value", exc |-> None, coords |-> acc.coords,
          atom_lines |-> acc.atom_lines, sequence |-> acc.sequence]

\* parse_pdb(file_path, chain_id, c_alpha_only), file_path resolved to its entry
parse_pdb(entry, chain_id, c_alpha_only) ==
    IF entry.kind # "file" THEN OpenFailure(entry)
    ELSE ParseReturn(ParseLines(EmptyAcc, entry.lines, chain_id, c_alpha_only))

\* the line write_pdb writes for atom_lines[i] and coords[i]
WriteLine(line, c) ==
    Slice(line, 0, 30) \o FormatFixed(c[1], 8, 3) \o FormatFixed(c[2], 8, 3)
    \o FormatFixed(c[3], 8, 3) \o rstrip(SliceFrom(line, 54)) \o <<"\n">>

\* write_pdb(file_path, coords, atom_lines): the content of the written file
write_pdb(coords, atom_lines) ==
    [i \in 1..Len(atom_lines) |-> WriteLine(atom_lines[i], coords[i])]

\* ----------------------------------------------------------- scale constant
\* Lengths and distances of the scoring formulas are in 1/100, kernel values and
\* scores in 1/100000.

\* floor(100 * n^(1/3))
CbrtHundredths(n) ==
    CHOOSE r \in 0..500 : r * r * r <= 1000000 * n /\ (r + 1) * (r + 1) * (r + 1) > 1000000 * n

\* get_d0 clamped from below at 0.5 (a mutant)
get_d0_Clamped(length) ==
    LET v == IF length > 15 THEN (124 * CbrtHundredths(length - 15)) \div 100 - 180 ELSE 50
    IN  IF v < 50 THEN 50 ELSE v

\* get_d0(length) = 1.24 * (length - 15)**(1/3) - 1.8 if length > 15 else 0.5
get_d0(length) ==
    IF length > 15 THEN (124 * CbrtHundredths(length - 15)) \div 100 - 180 ELSE 50

\* a / b in 1/100000, for 0 <= a <= b
Ratio(a, b) ==
    LET q == (10000 * a) \div b
        r == (10000 * a) % b
    IN  10 * q + (10 * r) \div b

\* 1.0 / (1.0 + (d / d0)**2), and equally 1.0 / (1.0 + d_sq / d0**2)
Kernel(d, d0) == Ratio(d0 * d0, d0 * d0 + d * d)

RECURSIVE SumSeq(_)
SumSeq(q) == IF q = <<>> THEN 0 ELSE Head(q) + SumSeq(Tail(q))

\* the similarity kernel s_ij of get_sinkhorn_alignment_score for one distance
ScorerKernel_OtherLength(d, len_a, len_b) == Kernel(d, get_d0(len_a))

ScorerKernel(d, len_a, len_b) == Kernel(d, get_d0(len_b))

\* torch.sum(1.0 / (1.0 + d_sq / get_d0(L)**2)) / L over the aligned pairs, whose
\* distances under the final transform are dists
TmScore(dists, L) ==
    SumSeq([k \in 1..Len(dists) |-> Kernel(dists[k], get_d0(L))]) \div L

\* ------------------------------------------------------------------ decoder
\* A matrix P: its shape (rows, columns) and its entries, indexed from 0 as
\* tensors are.
Matrix(n, m, Vals) == [rows : {n}, cols : {m}, val : [0..(n - 1) -> [0..(m - 1) -> Vals]]]

\* torch.argmax(P, dim=1) for one row: the first column holding the row maximum
ArgMaxRow(P, i) ==
    CHOOSE j \in 0..(P.cols - 1) :
        /\ \A k \in 0..(P.cols - 1) : P.val[i][k] <= P.val[i][j]
        /\ \A k \in 0..(j - 1) : P.val[i][k] < P.val[i][j]

\* best_cols = torch.argmax(P, dim=1)
BestCols(P) == [i \in 0..(P.rows - 1) |-> ArgMaxRow(P, i)]

\* confidences = P[row_indices, best_cols]
Confidences(P) == [i \in 0..(P.rows - 1) |-> P.val[i][BestCols(P)[i]]]

\* the argsort taken ascending (a mutant)
ArgsortDescending_Ascending(conf, n) ==
    {o \in [1..n -> 0..(n - 1)] :
        /\ \A a, b \in 1..n : a # b => o[a] # o[b]
        /\ \A a \in 1..(n - 1) : conf[o[a]] <= conf[o[a + 1]]}

\* torch.argsort(confidences, descending=True): the sort is not stable, so equal
\* confidences may come out in any order
ArgsortDescending(conf, n) ==
    {o \in [1..n -> 0..(n - 1)] :
        /\ \A a, b \in 1..n : a # b => o[a] # o[b]
        /\ \A a \in 1..(n - 1) : conf[o[a]] >= conf[o[a + 1]]}

\* the loop `for i in sorted_indices` without the test on used_cols (a mutant)
RECURSIVE GreedyWalk_NoUsedTest(_, _, _, _)
GreedyWalk_NoUsedTest(order, best_cols, aligned_pairs, used_cols) ==
    IF order = <<>> THEN aligned_pairs
    ELSE LET i == Head(order)
             j == best_cols[i]
         IN  GreedyWalk_NoUsedTest(Tail(order), best_cols,
                                   Append(aligned_pairs, <<i, j>>), used_cols \cup {j})

\* the loop `for i in sorted_indices`
RECURSIVE GreedyWalk(_, _, _, _)
GreedyWalk(order, best_cols, aligned_pairs, used_cols) ==
    IF order = <<>> THEN aligned_pairs
    ELSE LET i == Head(order)
             j == best_cols[i]
         IN  IF j \notin used_cols
             THEN GreedyWalk(Tail(order), best_cols,
                             Append(aligned_pairs, <<i, j>>), used_cols \cup {j})
             ELSE GreedyWalk(Tail(order), best_cols, aligned_pairs, used_cols)

\* tuple comparison of Python on pairs
PairLess(a, b) == a[1] < b[1] \/ (a[1] = b[1] /\ a[2] < b[2])

\* sorted(aligned_pairs)
RECURSIVE sorted(_)
sorted(l) ==
    IF l = <<>> THEN <<>>
    ELSE LET k == CHOOSE a \in 1..Len(l) :
                      \A b \in 1..Len(l) : ~PairLess(l[b], l[a]) /\ (l[b] = l[a] => a <= b)
         IN  <<l[k]>> \o sorted(SubSeq(l, 1, k - 1) \o SubSeq(l, k + 1, Len(l)))

\* argmax over an empty dimension is an IndexError of torch
DecodeRaises(P) == P.cols = 0

\* the decoder when the walk leaves out the row visited first (a mutant)
decode_alignment_matrix_SkipFirst(P, order) ==
    sorted(GreedyWalk(Tail(order), BestCols(P), <<>>, {}))

\* decode_alignment_matrix(P), given the order argsort produced
decode_alignment_matrix(P, order) == sorted(GreedyWalk(order, BestCols(P), <<>>, {}))

\* ------------------------------------------------------------ the run log
\* str.join of lines
RECURSIVE Concat(_)
Concat(parts) == IF parts = <<>> THEN <<>> ELSE Head(parts) \o Concat(Tail(parts))

\* pat occurs in s at position i (from 1)
OccursAt(s, pat, i) == i + Len(pat) - 1 <= Len(s) /\ SubSeq(s, i, i + Len(pat) - 1) = pat

\* `pat in s`
Contains(s, pat) == \E i \in 1..(Len(s) + 1) : OccursAt(s, pat, i)

\* the length of the longest run of characters of the class that starts at i
RECURSIVE RunLength(_, _, _)
RunLength(s, i, class) ==
    IF i <= Len(s) /\ s[i] \in class THEN 1 + RunLength(s, i + 1, class) ELSE 0

\* \d, [\d\.] and \s
Class ==
    [ Digit      |-> {Digits[i] : i \in 1..10},
      DigitOrDot |-> {Digits[i] : i \in 1..10} \cup {"."},
      Space      |-> {" ", "\n", "\t", "\r"} ]

NA == <<"N", "/", "A">>

\* the least element of a non-empty set of positions
Least(S) == CHOOSE i \in S : \A j \in S : i <= j

Pat ==
    [
      \* the texts parse_gemini_log looks for
      Found |-> <<"F", "o", "u", "n", "d">>,
      FoundSp |-> <<"F", "o", "u", "n", "d", " ">>,
      ResiduePairs |-> <<"r", "e", "s", "i", "d", "u", "e", " ", "p", "a", "i", "r", "s">>,
      SpResiduePairs |->
        <<" ", "r", "e", "s", "i", "d", "u", "e", " ", "p", "a", "i", "r", "s">>,
      Kabsch |-> <<"K", "a", "b", "s", "c", "h", " ", "R", "M", "S", "D">>,
      TmMobile |->
        <<"S", "t", "a", "n", "d", "a", "r", "d", " ", "T", "M", "-", "s", "c", "o", "r", "e",
          " ", "(", "n", "o", "r", "m", "a", "l", "i", "z", "e", "d", " ", "b", "y", " ", "m",
          "o", "b", "i", "l", "e">>,
      TmReference |->
        <<"S", "t", "a", "n", "d", "a", "r", "d", " ", "T", "M", "-", "s", "c", "o", "r", "e",
          " ", "(", "n", "o", "r", "m", "a", "l", "i", "z", "e", "d", " ", "b", "y", " ", "r",
          "e", "f", "e", "r", "e", "n", "c", "e">> ]

\* re.search(r"Found (\d+) residue pairs", line): the group of the leftmost
\* match, NA without a match
SearchFound(line) ==
    LET hits == {i \in 1..Len(line) :
                    /\ OccursAt(line, Pat.FoundSp, i)
                    /\ RunLength(line, i + 6, Class.Digit) >= 1
                    /\ OccursAt(line, Pat.SpResiduePairs,
                                i + 6 + RunLength(line, i + 6, Class.Digit))}
    IN  IF hits = {} THEN NA
        ELSE LET i == Least(hits)
             IN  SubSeq(line, i + 6, i + 5 + RunLength(line, i + 6, Class.Digit))

\* "=\s*([\d\.]+)" tried at the "=" of position e: where the group starts and how
\* long it is at most (\s and [\d\.] share no character, so \s* takes every blank)
GroupStart(line, e) == e + 1 + RunLength(line, e + 1, Class.Space)
GroupLength(line, e) == RunLength(line, GroupStart(line, e), Class.DigitOrDot)

\* re.search(r"Kabsch RMSD.*?=\s*([\d\.]+)", line); "." does not cross a newline
SearchKabsch(line) ==
    LET hits == {e \in 1..Len(line) :
                    /\ line[e] = "="
                    /\ GroupLength(line, e) >= 1
                    /\ \E i \in 1..e : /\ OccursAt(line, Pat.Kabsch, i)
                                       /\ i + Len(Pat.Kabsch) <= e
                                       /\ \A k \in (i + Len(Pat.Kabsch))..(e - 1) : line[k] # "\n"}
    IN  IF hits = {} THEN NA
        ELSE LET e == Least(hits)
             IN  SubSeq(line, GroupStart(line, e), GroupStart(line, e) + GroupLength(line, e) - 1)

\* "$": the end of the line, or just before its final newline
AtEnd(line, k) == k = Len(line) + 1 \/ (k = Len(line) /\ line[k] = "\n")

\* re.search(r"=\s*([\d\.]+)$", line)
SearchTrailingNumber(line) ==
    LET hits == {e \in 1..Len(line) :
                    /\ line[e] = "="
                    /\ GroupLength(line, e) >= 1
                    /\ AtEnd(line, GroupStart(line, e) + GroupLength(line, e))}
    IN  IF hits = {} THEN NA
        ELSE LET e == Least(hits)
             IN  SubSeq(line, GroupStart(line, e), GroupStart(line, e) + GroupLength(line, e) - 1)

NoResults == [len |-> NA, rmsd |-> NA, tm1 |-> NA, tm2 |-> NA]

\* the if/elif chain of parse_gemini_log for one line
GeminiLine(results, line) ==
    IF Contains(line, Pat.Found) /\ Contains(line, Pat.ResiduePairs)
    THEN IF SearchFound(line) # NA THEN [results EXCEPT !.len = SearchFound(line)] ELSE results
    ELSE IF Contains(line, Pat.Kabsch)
    THEN IF SearchKabsch(line) # NA THEN [results EXCEPT !.rmsd = SearchKabsch(line)] ELSE results
    ELSE IF Contains(line, Pat.TmMobile)
    THEN IF SearchTrailingNumber(line) # NA
         THEN [results EXCEPT !.tm1 = SearchTrailingNumber(line)] ELSE results
    ELSE IF Contains(line, Pat.TmReference)
    THEN IF SearchTrailingNumber(line) # NA
         THEN [results EXCEPT !.tm2 = SearchTrailingNumber(line)] ELSE results
    ELSE results

RECURSIVE GeminiLines(_, _)
GeminiLines(results, lines) ==
    IF lines = <<>> THEN results
    ELSE GeminiLines(GeminiLine(results, Head(lines)), Tail(lines))

\* parse_gemini_log(file_path) for a log file holding the given lines, each as
\* read from the file, its newline included
parse_gemini_log(lines) == GeminiLines(NoResults, lines)

\* parse_tmalign_log(file_path) for the file at the path, its .lines being the
\* text f.read() returns; Absent when no file is there (the path "" of a pair
\* without official log included).  Each value is the group of the leftmost
\* match of its pattern in the whole text, NA without a match.
parse_tmalign_log(file) ==
    LET content == file.lines
        Lab == [ Length |-> <<"A", "l", "i", "g", "n", "e", "d", " ", "l", "e", "n", "g", "t",
                              "h", "=">>,
                 Rmsd   |-> <<"R", "M", "S", "D", "=">>,
                 Tm     |-> <<"T", "M", "-", "s", "c", "o", "r", "e", "=">>,
                 Chain1 |->
                   <<" ", "(", "i", "f", " ", "n", "o", "r", "m", "a", "l", "i", "z", "e", "d",
                     " ", "b", "y", " ", "l", "e", "n", "g", "t", "h", " ", "o", "f", " ", "C",
                     "h", "a", "i", "n", "_", "1">>,
                 Chain2 |->
                   <<" ", "(", "i", "f", " ", "n", "o", "r", "m", "a", "l", "i", "z", "e", "d",
                     " ", "b", "y", " ", "l", "e", "n", "g", "t", "h", " ", "o", "f", " ", "C",
                     "h", "a", "i", "n", "_", "2">> ]
        \* re.search of label, \s*, a group of one or more characters of the
        \* class, and tail
        Search(label, class, tail) ==
            LET start(i) == i + Len(label) + RunLength(content, i + Len(label), Class.Space)
                lens(i)  == {k \in 1..RunLength(content, start(i), class) :
                                OccursAt(content, tail, start(i) + k)}
                hits     == {i \in 1..Len(content) :
                                OccursAt(content, label, i) /\ lens(i) # {}}
            IN  IF hits = {} THEN NA
                ELSE LET i == Least(hits)
                         k == CHOOSE k \in lens(i) : \A l \in lens(i) : l <= k
                     IN  SubSeq(content, start(i), start(i) + k - 1)
    IN  IF file.kind = "absent" THEN NoResults
        ELSE [len  |-> Search(Lab.Length, Class.Digit, <<>>),
              rmsd |-> Search(Lab.Rmsd, Class.DigitOrDot, <<>>),
              tm1  |-> Search(Lab.Tm, Class.DigitOrDot, Lab.Chain1),
              tm2  |-> Search(Lab.Tm, Class.DigitOrDot, Lab.Chain2)]

\* ------------------------------------------------------- what main prints
\* The fixed texts of the print and write calls of main and parse_pdb: the six
\* lines of the banner, then the pieces of the formatted lines in the order of
\* the source.  Unit stands for the two characters after the RMSD value, which
\* are not ASCII.
Txt ==
    [
      \* the banner of main
      Banner1 |->
        <<"*", "*", "*", "*", "*", "*", "*", "*", "*", "*", "*", "*", "*", "*", "*", "*", "*",
          "*", "*", "*", "*", "*", "*", "*", "*", "*", "*", "*", "*", "*", "*", "*", "*", "*",
          "*", "*", "*", "*", "*", "*", "*", "*", "*", "*", "*", "*", "*", "*", "*", "*", "*",
          "*", "*", "*", "*", "*", "*", "*", "*", "*", "*", "*", "*", "*", "*", "*", "*", "*",
          "*", "*", "*", "*", "*", "*">>,
      Banner2 |->
        <<" ", "*", " ", " ", " ", " ", " ", " ", " ", " ", " ", " ", " ", " ", " ", " ", "g",
          "e", "m", "i", "n", "i", "_", "t", "m", "_", "a", "l", "i", "g", "n", "_", "f", "i",
          "n", "a", "l", ".", "p", "y", " ", "(", "2", "0", "2", "5", ")", " ", " ", " ", " ",
          " ", " ", " ", " ", " ", " ", " ", " ", " ", " ", " ", " ", " ", " ", " ", " ", " ",
          " ", " ", "*">>,
      Banner3 |->
        <<" ", "*", " ", "A", " ", "t", "o", "o", "l", " ", "t", "o", " ", "f", "i", "n", "d",
          " ", "t", "h", "e", " ", "o", "p", "t", "i", "m", "a", "l", " ", "s", "u", "p", "e",
          "r", "p", "o", "s", "i", "t", "i", "o", "n", " ", "f", "o", "r", " ", "p", "r", "o",
          "t", "e", "i", "n", " ", "s", "t", "r", "u", "c", "t", "u", "r", "e", "s", " ", " ",
          " ", " ", " ", " ", "*">>,
      Banner4 |->
        <<" ", "*", " ", "D", "e", "v", "e", "l", "o", "p", "e", "d", " ", "w", "i", "t", "h",
          " ", "G", "e", "m", "i", "n", "i", " ", "b", "a", "s", "e", "d", " ", "o", "n", " ",
          "t", "h", "e", " ", "p", "r", "i", "n", "c", "i", "p", "l", "e", "s", " ", "o", "f",
          " ", "T", "M", "-", "a", "l", "i", "g", "n", " ", " ", " ", " ", " ", " ", " ", " ",
          " ", " ", " ", " ", "*">>,
      Banner5 |->
        <<" ", "*", " ", "A", "u", "t", "h", "o", "r", ":", " ", "Y", "u", "e", " ", "H", "u",
          " ", "(", "h", "u", "y", "u", "e", "@", "q", "l", "u", ".", "e", "d", "u", ".", "c",
          "n", ")", " ", " ", " ", " ", " ", " ", " ", " ", " ", " ", " ", " ", " ", " ", " ",
          " ", " ", " ", " ", " ", " ", " ", " ", " ", " ", " ", " ", " ", " ", " ", " ", " ",
          " ", " ", "*">>,
      Banner6 |->
        <<" ", "*", "*", "*", "*", "*", "*", "*", "*", "*", "*", "*", "*", "*", "*", "*", "*",
          "*", "*", "*", "*", "*", "*", "*", "*", "*", "*", "*", "*", "*", "*", "*", "*", "*",
          "*", "*", "*", "*", "*", "*", "*", "*", "*", "*", "*", "*", "*", "*", "*", "*", "*",
          "*", "*", "*", "*", "*", "*", "*", "*", "*", "*", "*", "*", "*", "*", "*", "*", "*",
          "*", "*", "*", "*", "*", "*", "*">>,
      \* the fixed texts of the print and write calls of main and parse_pdb
      Started |->
        <<"P", "r", "o", "g", "r", "a", "m", " ", "s", "t", "a", "r", "t", "e", "d", " ", "a",
          "t", ":", " ">>,
      NotFound |->
        <<"E", "r", "r", "o", "r", ":", " ", "P", "D", "B", " ", "f", "i", "l", "e", " ", "n",
          "o", "t", " ", "f", "o", "u", "n", "d", " ", "a", "t", " ">>,
      NoAtoms1 |->
        <<"E", "r", "r", "o", "r", ":", " ", "N", "o", " ", "m", "a", "t", "c", "h", "i", "n",
          "g", " ", "C", "-", "a", "l", "p", "h", "a", " ", "a", "t", "o", "m", "s", " ", "f",
          "o", "u", "n", "d", " ", "i", "n", " ">>,
      NoAtoms2 |->
        <<" ", "f", "o", "r", " ", "s", "p", "e", "c", "i", "f", "i", "e", "d", " ", "c", "h",
          "a", "i", "n", ".">>,
      Name1 |->
        <<"N", "a", "m", "e", " ", "o", "f", " ", "C", "h", "a", "i", "n", "_", "1", ":", " ">>,
      Name2 |->
        <<"N", "a", "m", "e", " ", "o", "f", " ", "C", "h", "a", "i", "n", "_", "2", ":", " ">>,
      ChainOpen |-> <<" ", "(", "c", "h", "a", "i", "n", " ">>,
      All |-> <<"A", "l", "l">>,
      Length1 |->
        <<"L", "e", "n", "g", "t", "h", " ", "o", "f", " ", "C", "h", "a", "i", "n", "_", "1",
          ":", " ">>,
      Length2 |->
        <<"L", "e", "n", "g", "t", "h", " ", "o", "f", " ", "C", "h", "a", "i", "n", "_", "2",
          ":", " ">>,
      Residues |-> <<" ", "r", "e", "s", "i", "d", "u", "e", "s">>,
      Finding |->
        <<"-", "-", "-", " ", "F", "i", "n", "d", "i", "n", "g", " ", "O", "p", "t", "i", "m",
          "a", "l", " ", "S", "u", "p", "e", "r", "p", "o", "s", "i", "t", "i", "o", "n", " ",
          "(", "S", "i", "n", "k", "h", "o", "r", "n", " ", "D", "i", "f", "f", "e", "r", "e",
          "n", "t", "i", "a", "b", "l", "e", " ", "T", "M", "-", "s", "c", "o", "r", "e", ")",
          " ", "-", "-", "-">>,
      Step |-> <<"S", "t", "e", "p", " ">>,
      Score |->
        <<":", " ", "S", "i", "n", "k", "h", "o", "r", "n", " ", "S", "c", "o", "r", "e", " ",
          "=", " ">>,
      SearchFinished |->
        <<"-", "-", "-", " ", "G", "l", "o", "b", "a", "l", " ", "S", "e", "a", "r", "c", "h",
          " ", "F", "i", "n", "i", "s", "h", "e", "d", " ", "-", "-", "-">>,
      Analysis |->
        <<"-", "-", "-", " ", "A", "l", "i", "g", "n", "m", "e", "n", "t", " ", "A", "n", "a",
          "l", "y", "s", "i", "s", " ", "-", "-", "-">>,
      Found1 |-> <<"F", "o", "u", "n", "d", " ">>,
      Found2 |->
        <<" ", "r", "e", "s", "i", "d", "u", "e", " ", "p", "a", "i", "r", "s", " ", "f", "r",
          "o", "m", " ", "t", "h", "e", " ", "o", "p", "t", "i", "m", "i", "z", "e", "d", " ",
          "a", "l", "i", "g", "n", "m", "e", "n", "t", " ", "m", "a", "t", "r", "i", "x", ".">>,
      Kabsch1 |->
        <<"K", "a", "b", "s", "c", "h", " ", "R", "M", "S", "D", " ", "f", "o", "r", " ", "t",
          "h", "e", " ">>,
      Kabsch2 |->
        <<" ", "a", "l", "i", "g", "n", "e", "d", " ", "p", "a", "i", "r", "s", " ", "=", " ">>,
      TmRef1 |->
        <<"S", "t", "a", "n", "d", "a", "r", "d", " ", "T", "M", "-", "s", "c", "o", "r", "e",
          " ", "(", "n", "o", "r", "m", "a", "l", "i", "z", "e", "d", " ", "b", "y", " ", "r",
          "e", "f", "e", "r", "e", "n", "c", "e", ",", " ", "L", "=">>,
      TmMob1 |->
        <<"S", "t", "a", "n", "d", "a", "r", "d", " ", "T", "M", "-", "s", "c", "o", "r", "e",
          " ", "(", "n", "o", "r", "m", "a", "l", "i", "z", "e", "d", " ", "b", "y", " ", "m",
          "o", "b", "i", "l", "e", ",", " ", " ", " ", "L", "=">>,
      Tm2 |-> <<")", " ", "=", " ">>,
      SeqId |->
        <<"S", "e", "q", "u", "e", "n", "c", "e", " ", "i", "d", "e", "n", "t", "i", "t", "y",
          " ", "i", "n", " ", "a", "l", "i", "g", "n", "e", "d", " ", "r", "e", "g", "i", "o",
          "n", " ", "=", " ">>,
      Pairs |->
        <<"-", "-", "-", " ", "A", "l", "i", "g", "n", "e", "d", " ", "P", "a", "i", "r", "s",
          " ", "(", "m", "o", "b", "i", "l", "e", ",", " ", "r", "e", "f", "e", "r", "e", "n",
          "c", "e", ")", " ", "-", "-", "-">>,
      Generating |->
        <<"-", "-", "-", " ", "G", "e", "n", "e", "r", "a", "t", "i", "n", "g", " ", "F", "i",
          "n", "a", "l", " ", "A", "l", "i", "g", "n", "e", "d", " ", "S", "t", "r", "u", "c",
          "t", "u", "r", "e", " ", "-", "-", "-">>,
      Writing1 |->
        <<"W", "r", "i", "t", "i", "n", "g", " ", "a", "l", "i", "g", "n", "e", "d", " ", "m",
          "o", "b", "i", "l", "e", " ", "p", "r", "o", "t", "e", "i", "n", " ", "t", "o", " ",
          "'">>,
      Writing2 |-> <<"'", ".", ".", ".">>,
      Success1 |->
        <<"S", "u", "c", "c", "e", "s", "s", "!", " ", "Y", "o", "u", " ", "c", "a", "n", " ",
          "n", "o", "w", " ", "l", "o", "a", "d", " ", "'">>,
      Success2 |-> <<"'", " ", "a", "n", "d", " ", "'">>,
      Success3 |->
        <<"'", " ", "i", "n", "t", "o", " ", "a", " ", "v", "i", "e", "w", "e", "r", ".">>,
      Verify |->
        <<"T", "o", " ", "v", "e", "r", "i", "f", "y", ",", " ", "y", "o", "u", " ", "c", "a",
          "n", " ", "r", "u", "n", ":", " ", ".", "/", "T", "M", "a", "l", "i", "g", "n", "/",
          "T", "M", "a", "l", "i", "g", "n", " ">>,
      Saving |->
        <<"-", "-", "-", " ", "S", "a", "v", "i", "n", "g", " ", "T", "r", "a", "n", "s", "f",
          "o", "r", "m", "a", "t", "i", "o", "n", " ", "M", "a", "t", "r", "i", "x", " ", "-",
          "-", "-">>,
      Saved1 |->
        <<"T", "r", "a", "n", "s", "f", "o", "r", "m", "a", "t", "i", "o", "n", " ", "m", "a",
          "t", "r", "i", "x", " ", "s", "a", "v", "e", "d", " ", "t", "o", " ", "'">>,
      Quote |-> <<"'">>,
      Finished |->
        <<"P", "r", "o", "g", "r", "a", "m", " ", "f", "i", "n", "i", "s", "h", "e", "d", " ",
          "a", "t", ":", " ">>,
      Elapsed |->
        <<"T", "o", "t", "a", "l", " ", "e", "x", "e", "c", "u", "t", "i", "o", "n", " ", "t",
          "i", "m", "e", ":", " ">>,
      MatrixHead1 |->
        <<"#", " ", "T", "r", "a", "n", "s", "f", "o", "r", "m", "a", "t", "i", "o", "n", " ",
          "m", "a", "t", "r", "i", "x", " ", "f", "o", "r", " ">>,
      Arrow |-> <<" ", "-", ">", " ">>,
      MatrixHead2 |->
        <<"#", " ", "T", "h", "i", "s", " ", "m", "a", "t", "r", "i", "x", " ", "s", "h", "o",
          "u", "l", "d", " ", "b", "e", " ", "a", "p", "p", "l", "i", "e", "d", " ", "t", "o",
          " ", "t", "h", "e", " ", "C", "E", "N", "T", "E", "R", "E", "D", " ", "c", "o", "o",
          "r", "d", "i", "n", "a", "t", "e", "s", " ", "o", "f", " ", "t", "h", "e", " ", "m",
          "o", "b", "i", "l", "e", " ", "p", "r", "o", "t", "e", "i", "n", ".">>,
      \* the two characters the source has after the RMSD value, which are not ASCII
      Unit |-> <<"A1", "A2">> ]

Path ==
    [
      \* the paths given as --mobile, --reference, --output and --matrix_out (their
      \* base names are the same texts)
      Mobile |-> <<"m", "o", "b", "i", "l", "e", ".", "p", "d", "b">>,
      Reference |-> <<"r", "e", "f", ".", "p", "d", "b">>,
      Output |-> <<"a", "l", "i", "g", "n", "e", "d", ".", "p", "d", "b">>,
      Matrix |-> <<"m", "a", "t", "r", "i", "x", ".", "t", "x", "t">> ]
\* two readings of the clock, as main prints them
Clock ==
    [ Now |->
        <<"2", "0", "2", "5", "-", "0", "1", "-", "0", "1", " ", "1", "2", ":", "0", "0", ":",
          "0", "0">>,
      Elapsed |-> <<"0", ":", "0", "0", ":", "0", "1", ".", "0", "0", "0", "0", "0", "0">> ]

\* A float of the run: <<v>> for the number v (in the unit of its use), <<>>
\* for NaN.
NaN == <<>>
Fin(v) == <<v>>

\* f"{x:W.Df}" of such a float
FormatFloat(x, W, D) ==
    IF x = NaN THEN (IF W > 3 THEN Spaces(W - 3) ELSE <<>>) \o <<"n", "a", "n">>
    ELSE FormatFixed(x[1], W, D)

\* print(text): the lines it adds to the standard output
BannerLines(clock) ==
    <<<<>>, Txt.Banner1, Txt.Banner2, Txt.Banner3, Txt.Banner4, Txt.Banner5, Txt.Banner6, <<>>,
      Txt.Started \o clock, <<>>>>

\* what parse_pdb prints for the path when it returns the empty result
ParseMessage(entry, path) ==
    IF entry.kind = "absent" THEN <<Txt.NotFound \o path>>
    ELSE <<Txt.NoAtoms1 \o path \o Txt.NoAtoms2>>

NamesLines(len_mobile, len_ref) ==
    <<Txt.Name1 \o Path.Mobile \o Txt.ChainOpen \o Txt.All \o <<")">>,
      Txt.Name2 \o Path.Reference \o Txt.ChainOpen \o Txt.All \o <<")">>,
      Txt.Length1 \o NatDigits(len_mobile) \o Txt.Residues,
      Txt.Length2 \o NatDigits(len_ref) \o Txt.Residues,
      <<>>>>

\* f"Step {step:05d}: Sinkhorn Score = {score.item():.4f}", the score in 1/10000
StepLine(step, score) == Txt.Step \o ZeroPad(step, 5) \o Txt.Score \o FormatFloat(score, 0, 4)

FoundLine(aligned_len) == Txt.Found1 \o NatDigits(aligned_len) \o Txt.Found2

\* the Kabsch line without the word the log parser looks for (a mutant)
KabschLine_Reworded(aligned_len, kabsch_rmsd) ==
    <<"R", "M", "S", "D">> \o Txt.Kabsch2 \o FormatFixed(kabsch_rmsd, 0, 2) \o <<" ">> \o Txt.Unit

\* the RMSD in 1/100
KabschLine(aligned_len, kabsch_rmsd) ==
    Txt.Kabsch1 \o NatDigits(aligned_len) \o Txt.Kabsch2 \o FormatFixed(kabsch_rmsd, 0, 2)
    \o <<" ">> \o Txt.Unit

\* the TM-scores in 1/100000
TmRefLine(len_ref, tm_score_ref) ==
    Txt.TmRef1 \o NatDigits(len_ref) \o Txt.Tm2 \o FormatFloat(tm_score_ref, 0, 5)

TmMobLine(len_mobile, tm_score_mob) ==
    Txt.TmMob1 \o NatDigits(len_mobile) \o Txt.Tm2 \o FormatFloat(tm_score_mob, 0, 5)

\* the sequence identity in 1/1000
SeqIdLine(seq_id) == Txt.SeqId \o FormatFixed(seq_id, 0, 3)

\* str((i, j))
PairText(pr) == <<"(">> \o NatDigits(pr[1]) \o <<",", " ">> \o NatDigits(pr[2]) \o <<")">>

\* " ".join(map(str, pairs))
RECURSIVE JoinPairs(_)
JoinPairs(pairs) ==
    IF pairs = <<>> THEN <<>>
    ELSE IF Len(pairs) = 1 THEN PairText(pairs[1])
    ELSE PairText(pairs[1]) \o <<" ">> \o JoinPairs(Tail(pairs))

\* the loop printing the aligned pairs six to a line
RECURSIVE PairLines(_)
PairLines(pairs) ==
    IF pairs = <<>> THEN <<>>
    ELSE <<JoinPairs(SubSeq(pairs, 1, Min(6, Len(pairs))))>>
         \o PairLines(SubSeq(pairs, 7, Len(pairs)))

WriterLinesBefore == <<<<>>, Txt.Generating, Txt.Writing1 \o Path.Output \o Txt.Writing2>>

WriterLinesAfter ==
    <<Txt.Success1 \o Path.Reference \o Txt.Success2 \o Path.Output \o Txt.Success3,
      Txt.Verify \o Path.Reference \o <<" ">> \o Path.Output>>

FinishLines(clock, elapsed) == <<<<>>, Txt.Finished \o clock, Txt.Elapsed \o elapsed>>

\* the log file of a run: every printed line with its newline
LogFile(printed) == [i \in 1..Len(printed) |-> printed[i] \o <<"\n">>]

\* ---------------------------------------------------- the arithmetic of main
\* Coordinates are in 1/1000.  A centroid is kept as the sum of the points and
\* their number, so that subtracting and adding centroids is exact.

\* a / b rounded to the nearest integer, halves to the even one (b > 0)
RoundDiv(a, b) ==
    LET q == a \div b
        r == a % b
    IN  IF 2 * r < b THEN q
        ELSE IF 2 * r > b THEN q + 1
        ELSE IF q % 2 = 0 THEN q ELSE q + 1

\* floor(sqrt(n)), searched between lo and hi
RECURSIVE SqrtBetween(_, _, _)
SqrtBetween(n, lo, hi) ==
    IF lo >= hi THEN lo
    ELSE LET mid == (lo + hi + 1) \div 2
         IN  IF mid * mid <= n THEN SqrtBetween(n, mid, hi) ELSE SqrtBetween(n, lo, mid - 1)

ISqrt(n) == SqrtBetween(n, 0, 46340)

\* coords.mean(dim=0)
mean(coords) ==
    [sum |-> [k \in 1..3 |-> SumSeq([i \in 1..Len(coords) |-> coords[i][k]])],
     n   |-> Len(coords)]

\* What get_transformation_matrix returns for the optimizer's parameters: a
\* rotation matrix R and a translation u, or NaN in every entry when the
\* parameters are NaN.
Transform(R, u) == [nan |-> FALSE, R |-> R, u |-> u]
NaNTransform == [nan |-> TRUE, R |-> <<>>, u |-> <<>>]

\* row k of R applied to v
RotRow(R, k, v) == R[k][1] * v[1] + R[k][2] * v[2] + R[k][3] * v[3]

\* the numerator, over center.n * ref_center.n, of
\*     torch.matmul(x - center, R.T) + u + ref_center
SuperposedNum(x, center, T, ref_center) ==
    [k \in 1..3 |->
        ref_center.n * (RotRow(T.R, k, [j \in 1..3 |-> center.n * x[j] - center.sum[j]])
                        + center.n * T.u[k])
        + center.n * ref_center.sum[k]]

\* that point, rounded as the three decimals of the written record round it
Superposed(x, center, T, ref_center) ==
    [k \in 1..3 |-> RoundDiv(SuperposedNum(x, center, T, ref_center)[k],
                             center.n * ref_center.n)]

\* the distance, in 1/100, between final_aligned_coords[i] and ref_coords_opt[j]:
\* x of the mobile set moved by the transform, y of the reference set
PairDistance(x, y, center, T, ref_center) ==
    LET num == SuperposedNum(x, center, T, ref_center)
        d   == [k \in 1..3 |-> RoundDiv(num[k] - center.n * ref_center.n * y[k],
                                        10 * center.n * ref_center.n)]
    IN  ISqrt(d[1] * d[1] + d[2] * d[2] + d[3] * d[3])

\* the TM-score of the aligned pairs normalized by L, NaN under a NaN transform
tm_score(aligned_pairs, mobile_coords, ref_coords, T, L) ==
    IF T.nan THEN NaN
    ELSE Fin(TmScore([p \in 1..Len(aligned_pairs) |->
                         PairDistance(mobile_coords[aligned_pairs[p][1] + 1],
                                      ref_coords[aligned_pairs[p][2] + 1],
                                      mean(mobile_coords), T, mean(ref_coords))], L))

\* the distance of two points, in 1/1000
Distance(a, b) ==
    ISqrt((a[1] - b[1]) * (a[1] - b[1]) + (a[2] - b[2]) * (a[2] - b[2])
          + (a[3] - b[3]) * (a[3] - b[3]))

\* The RMSD, in 1/100, of A superposed on B by kabsch, for one or two pairs of
\* points: one point is moved onto the other; two points are laid on the line
\* through the other two with the midpoints together, each end off by half the
\* difference of the two lengths.
kabsch_rmsd(A, B) ==
    IF Len(A) = 1 THEN 0
    ELSE LET a == Distance(A[1], A[2])
             b == Distance(B[1], B[2])
         IN  RoundDiv(IF a < b THEN b - a ELSE a - b, 20)

\* n_identical / aligned_len in 1/1000
seq_id(aligned_pairs, mobile_seq, ref_seq) ==
    RoundDiv(1000 * Cardinality({p \in 1..Len(aligned_pairs) :
                                    mobile_seq[aligned_pairs[p][1] + 1]
                                    = ref_seq[aligned_pairs[p][2] + 1]}),
             Len(aligned_pairs))

\* the full-atom coordinates main hands to write_pdb: re-centered by `center`,
\* moved by the final transform, shifted by the reference centroid
final_full_coords_out(mobile_coords_full, center, T, ref_center) ==
    [i \in 1..Len(mobile_coords_full) |->
        Superposed(mobile_coords_full[i], center, T, ref_center)]

\* the record write_pdb writes when the coordinates are NaN
WriteLineNaN(line) ==
    Slice(line, 0, 30) \o FormatFloat(NaN, 8, 3) \o FormatFloat(NaN, 8, 3)
    \o FormatFloat(NaN, 8, 3) \o rstrip(SliceFrom(line, 54)) \o <<"\n">>

\* f"{v:.8f}" for v in 1/1000
Format8(v) == FormatFixed(v, 0, 3) \o <<"0", "0", "0", "0", "0">>

\* an entry of the transform in the matrix report: u in 1/1000, R in units
ReportEntry(T, v) == IF T.nan THEN FormatFloat(NaN, 0, 8) ELSE Format8(v)

\* "name[a] = v1, name[b] = v2, name[c] = v3\n"
ReportLine(labels, T, vals) ==
    labels[1] \o <<" ", "=", " ">> \o ReportEntry(T, vals[1]) \o <<",", " ">>
    \o labels[2] \o <<" ", "=", " ">> \o ReportEntry(T, vals[2]) \o <<",", " ">>
    \o labels[3] \o <<" ", "=", " ">> \o ReportEntry(T, vals[3]) \o <<"\n">>


\* the four f.write calls of the matrix report
MatrixReport(T) ==
    <<Txt.MatrixHead1 \o Path.Mobile \o Txt.Arrow \o Path.Reference \o <<"\n">>,
      Txt.MatrixHead2 \o <<"\n">>,
      ReportLine([k \in 1..3 |-> <<"t", "[", Digits[k], "]">>], T,
                 [k \in 1..3 |-> IF T.nan THEN 0 ELSE T.u[k]])>>
    \o [r \in 1..3 |->
          ReportLine([k \in 1..3 |-> <<"u", "[", Digits[r], "]", "[", Digits[k], "]">>], T,
                     [k \in 1..3 |-> IF T.nan THEN 0 ELSE 1000 * T.R[r][k]])]

\* ------------------------------------------------------------- the rotation
\* The entries of the generator and of the rotation are in 1/10000, the
\* parameters of the rotation in 1/10000 radian.

\* the terms of the exponential series that are summed
Terms == 14

\* torch.matmul of two 3x3 matrices
MatMul(A, B) ==
    LET E(i, j) == RoundDiv(A[i][1] * B[1][j], 10000) + RoundDiv(A[i][2] * B[2][j], 10000)
                   + RoundDiv(A[i][3] * B[3][j], 10000)
    IN  <<<<E(1, 1), E(1, 2), E(1, 3)>>, <<E(2, 1), E(2, 2), E(2, 3)>>,
          <<E(3, 1), E(3, 2), E(3, 3)>>>>

\* the sum I + W + W^2/2! + ... from the term of index k on, `term` being the
\* one before it and `acc` the sum so far
RECURSIVE ExpSeries(_, _, _, _)
ExpSeries(W, term, k, acc) ==
    IF k > Terms THEN acc
    ELSE LET prod == MatMul(term, W)
             N(i, j) == RoundDiv(prod[i][j], k)
             S(i, j) == acc[i][j] + N(i, j)
         IN  ExpSeries(W, <<<<N(1, 1), N(1, 2), N(1, 3)>>, <<N(2, 1), N(2, 2), N(2, 3)>>,
                             <<N(3, 1), N(3, 2), N(3, 3)>>>>,
                       k + 1,
                       <<<<S(1, 1), S(1, 2), S(1, 3)>>, <<S(2, 1), S(2, 2), S(2, 3)>>,
                         <<S(3, 1), S(3, 2), S(3, 3)>>>>)

\* torch.linalg.matrix_exp(W)
matrix_exp(W) ==
    LET I == <<<<10000, 0, 0>>, <<0, 10000, 0>>, <<0, 0, 10000>>>>
    IN  ExpSeries(W, I, 1, I)

\* get_transformation_matrix with W[1, 0] and W[0, 1] both set to -w[2], so that
\* W is not skew-symmetric (a mutant)
get_transformation_matrix_SignSlip(params_vector) ==
    LET w == SubSeq(params_vector, 1, 3)
        W == <<<<0, -w[3], w[2]>>, <<-w[3], 0, -w[1]>>, <<-w[2], w[1], 0>>>>
    IN  Transform(matrix_exp(W), SubSeq(params_vector, 4, 6))

\* get_transformation_matrix(params_vector): w, u = params_vector[:3],
\* params_vector[3:]; W filled from w; (matrix_exp(W), u)
get_transformation_matrix(params_vector) ==
    LET w == SubSeq(params_vector, 1, 3)
        W == <<<<0, -w[3], w[2]>>, <<w[3], 0, -w[1]>>, <<-w[2], w[1], 0>>>>
    IN  Transform(matrix_exp(W), SubSeq(params_vector, 4, 6))

\* --------------------------------------------------------------- input files
\* A record of the fixed-column format: record name (columns 0-5), serial (6-10),
\* atom name (12-15), alternate location (16), residue name (17-19), chain (21),
\* residue number and insertion code (22-26), x, y, z (30-53), the rest (54-).
MkLine(rec, serial, name, alt, resn, chain, resseq, x, y, z, rest) ==
    rec \o serial \o <<" ">> \o name \o <<alt>> \o resn \o <<" ">> \o <<chain>>
    \o resseq \o Spaces(3) \o x \o y \o z \o rest

\* the fields the records below are made of
Piece ==
    [ RecAtom |-> <<"A", "T", "O", "M", " ", " ">>,
      RecHetatm |-> <<"H", "E", "T", "A", "T", "M">>,
      NameCA |-> <<" ", "C", "A", " ">>,
      NameCB |-> <<" ", "C", "B", " ">>,
      NameCalcium |-> <<"C", "A", " ", " ">>,
      ResALA |-> <<"A", "L", "A">>,
      ResGLY |-> <<"G", "L", "Y">>,
      ResMSE |-> <<"M", "S", "E">>,
      Res1 |-> <<" ", " ", " ", "1", " ">>,
      Res2 |-> <<" ", " ", " ", "2", " ">>,
      Res3 |-> <<" ", " ", " ", "3", " ">>,
      Txt1 |-> <<" ", " ", " ", "1", ".", "0", "0", "0">>,
      Txt2 |-> <<" ", " ", " ", "2", ".", "5", "0", "0">>,
      Txt3 |-> <<" ", " ", "-", "3", ".", "2", "5", "0">>,
      Txt4 |-> <<" ", " ", " ", "4", ".", "0", "0", "0">>,
      Txt9 |-> <<" ", " ", "1", "9", ".", "1", "2", "5">>,
      TxtBad |-> <<" ", " ", " ", "1", ".", "0", "x", "0">>,
      \* occupancy and element, the line ending after them
      RestPlain |->
        <<" ", " ", "1", ".", "0", "0", " ", " ", " ", " ", " ", " ", " ", " ", " ", " ", " ",
          "C", "\n">>,
      \* the same with the blank charge columns of a full-width record
      RestBlanks |->
        <<" ", " ", "1", ".", "0", "0", " ", " ", " ", " ", " ", " ", " ", " ", " ", " ", " ",
          "C", " ", " ", "\n">> ]
Ser(c) == <<" ", " ", " ", " ", c>>

\* the records the files are made of
Line ==
    [
      \* the first CA of residue 1 of chain A
      CA1 |->
        MkLine(Piece.RecAtom, Ser("1"), Piece.NameCA, " ", Piece.ResALA, "A", Piece.Res1,
          Piece.Txt1, Piece.Txt2, Piece.Txt3, Piece.RestBlanks),
      \* its CB
      CB1 |->
        MkLine(Piece.RecAtom, Ser("2"), Piece.NameCB, " ", Piece.ResALA, "A", Piece.Res1,
          Piece.Txt4, Piece.Txt2, Piece.Txt1, Piece.RestPlain),
      \* a second CA record of residue 1 (another model of the same chain)
      CA1again |->
        MkLine(Piece.RecAtom, Ser("3"), Piece.NameCA, " ", Piece.ResALA, "A", Piece.Res1,
          Piece.Txt9, Piece.Txt9, Piece.Txt9, Piece.RestPlain),
      \* residue 2: the CA at alternate location B, then at alternate location A
      CA2altB |->
        MkLine(Piece.RecAtom, Ser("4"), Piece.NameCA, "B", Piece.ResGLY, "A", Piece.Res2,
          Piece.Txt4, Piece.Txt4, Piece.Txt4, Piece.RestPlain),
      CA2altA |->
        MkLine(Piece.RecAtom, Ser("5"), Piece.NameCA, "A", Piece.ResGLY, "A", Piece.Res2,
          Piece.Txt2, Piece.Txt1, Piece.Txt1, Piece.RestPlain),
      \* a CA of chain B, of a residue the table does not know
      CA1chainB |->
        MkLine(Piece.RecAtom, Ser("6"), Piece.NameCA, " ", Piece.ResMSE, "B", Piece.Res1,
          Piece.Txt3, Piece.Txt3, Piece.Txt2, Piece.RestPlain),
      \* a calcium ion
      Het |->
        MkLine(Piece.RecHetatm, Ser("7"), Piece.NameCalcium, " ", Piece.ResGLY, "A",
          Piece.Res3, Piece.Txt1, Piece.Txt1, Piece.Txt1, Piece.RestPlain),
      \* a CA whose x field is no number
      BadX |->
        MkLine(Piece.RecAtom, Ser("8"), Piece.NameCA, " ", Piece.ResALA, "A", Piece.Res3,
          Piece.TxtBad, Piece.Txt1, Piece.Txt1, Piece.RestPlain),
      \* a record cut off after the atom name
      Short |-> Piece.RecAtom \o Ser("9") \o <<" ">> \o Piece.NameCA ]

Catalog ==
    {Line.CA1, Line.CB1, Line.CA1again, Line.CA2altB, Line.CA2altA, Line.CA1chainB,
     Line.Het, Line.BadX, Line.Short}

ChainArgs == {NoChain, <<"A">>}

\* what is added to every loaded coordinate before the structure is written
\* back, in 1/1000: nothing (the identity transform), a shift to negative
\* values, a shift beyond the eight columns of a coordinate field
Shifts == {<<0, 0, 0>>, <<-25000, 0, 0>>, <<0, 10000000, 0>>}

\* The files at the paths given to main as --mobile and --reference.  The
\* mobile ones: two residues with a side-chain atom, a single CA, no CA at all,
\* no file, a CA whose x field is no number.
MobileFiles ==
    {Readable(<<Line.CA1, Line.CB1, Line.CA2altA>>), Readable(<<Line.CA1>>),
     Readable(<<Line.Het>>), Absent, Readable(<<Line.CA1, Line.BadX>>)}

RefFiles ==
    {Readable(<<Line.CA1again, Line.CA2altB, Line.CA2altA>>), Readable(<<Line.CA1chainB>>),
     Readable(<<Line.Het>>), Absent}

\* --steps up to
MaxSteps == 2

\* --print_freq (its default)
PrintFreq == 100

\* --gamma: its default, and a sharper one
Gammas == {20, 100}

\* the transforms the optimizer's parameters may stand for after the updates: the
\* identity, and a quarter turn about z with a shift
Transforms ==
    {Transform(<<<<1, 0, 0>>, <<0, 1, 0>>, <<0, 0, 1>>>>, <<0, 0, 0>>),
     Transform(<<<<0, -1, 0>>, <<1, 0, 0>>, <<0, 0, 1>>>>, <<1000, 0, -2000>>)}

\* the score a step prints when it is a number, in 1/10000
Scores == {Fin(9876)}

\* the value of a name main has not assigned yet; of a file not written
Unloaded == [EmptyResult EXCEPT !.kind = "unloaded"]
Unbound == <<>>
NotWritten == [written |-> FALSE, lines |-> <<>>]
Written(lines) == [written |-> TRUE, lines |-> lines]

\* The parameter vectors get_transformation_matrix is called with: every
\* combination of four values for each rotation parameter, with two translations.
ParamVectors ==
    {<<a, b, c, u[1], u[2], u[3]>> :
        a \in {-15000, 0, 5000, 10000}, b \in {-15000, 0, 5000, 10000},
        c \in {-15000, 0, 5000, 10000}, u \in {<<0, 0, 0>>, <<1000, 0, -2000>>}}

\* ------------------------------------------------------------------- state
VARIABLES
    io_entry,      \* what open() finds at the path given to parse_pdb
    io_chain,      \* parse_pdb's chain_id
    io_ca_only,    \* parse_pdb's c_alpha_only
    io_pc,         \* "start", "parsed", "written"
    io_loaded,     \* what parse_pdb returned or raised
    io_coords,     \* the coordinates handed to write_pdb
    io_written,    \* the lines write_pdb wrote
    dec_P,         \* the matrix handed to decode_alignment_matrix
    dec_pc,        \* "start", "returned", "raised"
    dec_pairs,     \* the list decode_alignment_matrix returned
    k_len_mobile,  \* the mobile length of a scoring run
    k_len_ref,     \* its reference length
    k_dists,       \* the distances of its pairs
    k_pc,          \* "start", "scored", "tm_ref", "done"
    k_s,           \* the scorer's kernel values s_ij for those distances
    k_tm_ref,      \* the TM-score normalized by reference
    k_tm_mob,      \* the TM-score normalized by mobile
    fs_mobile,       \* what open() finds at args.mobile
    fs_ref,          \* what open() finds at args.reference
    args_output,     \* whether --output was given
    args_matrix_out, \* whether --matrix_out was given
    args_steps,      \* --steps
    args_gamma,      \* --gamma
    run_pc,          \* where main is: "start", "loop", "decode", "analysed", "written",
                     \* "reported", "finished"; "aborted" by its return, "crashed"
    run_exc,         \* the exception that ended main, None without one
    mobile,          \* what parse_pdb returned for the mobile structure
    ref,             \* and for the reference structure
    step,            \* the loop variable
    n_updates,       \* the calls of optimizer.step() so far
    params_nan,      \* whether transform_params are NaN
    P,               \* the matrix of the last scoring, with the number of updates
                     \* its parameters had seen; Unbound before the first
    final_P,         \* P.detach() after the loop
    final_transform, \* R_final and u_final
    aligned_pairs,   \* the decoded pairs
    metrics,         \* the values of the analysis
    printed,         \* the lines printed so far
    out_file,        \* the file at args.output
    matrix_file,     \* the file at args.matrix_out
    log_results,     \* what parse_gemini_log made of the printed lines
    rot_params,      \* transform_params, the parameter vector
    rot_pc,          \* "start", "returned"
    rot_Ru,          \* what get_transformation_matrix returned for it
    cmp_fs,          \* the files compare_results.main finds: whether the pair file is
                     \* there, and per listed pair its log in each of the four directories
    cmp_pc,          \* "start", "loop", "write", "finished", "returned", "crashed"
    cmp_i,           \* the pair the loop is at
    cmp_totals,      \* the four totals dictionaries
    cmp_table,       \* table_content
    cmp_exc,         \* the exception that ended main, None without one
    cmp_summary      \* comparison_summary.txt

ioVars == <<io_entry, io_chain, io_ca_only, io_pc, io_loaded, io_coords, io_written>>

decVars == <<dec_P, dec_pc, dec_pairs>>

kVars == <<k_len_mobile, k_len_ref, k_dists, k_pc, k_s, k_tm_ref, k_tm_mob>>

runVars ==
    <<fs_mobile, fs_ref, args_output, args_matrix_out, args_steps, args_gamma, run_pc,
      run_exc, mobile, ref, step, n_updates, params_nan, P, final_P, final_transform,
      aligned_pairs, metrics, printed, out_file, matrix_file, log_results>>

rotVars == <<rot_params, rot_pc, rot_Ru>>

cmpVars == <<cmp_fs, cmp_pc, cmp_i, cmp_totals, cmp_table, cmp_exc, cmp_summary>>

vars == <<ioVars, decVars, kVars, runVars, rotVars, cmpVars>>

\* the state of a part of the program a specification does not exercise
IoIdle ==
    /\ io_entry = Absent /\ io_chain = NoChain /\ io_ca_only = TRUE /\ io_pc = "idle"
    /\ io_loaded = EmptyResult /\ io_coords = <<>> /\ io_written = <<>>

DecIdle == dec_P = [rows |-> 0, cols |-> 0, val |-> <<>>] /\ dec_pc = "idle" /\ dec_pairs = <<>>

KIdle ==
    /\ k_len_mobile = 1 /\ k_len_ref = 1 /\ k_dists = <<>> /\ k_pc = "idle"
    /\ k_s = <<>> /\ k_tm_ref = 0 /\ k_tm_mob = 0

RunIdle ==
    /\ fs_mobile = Absent /\ fs_ref = Absent /\ args_output = FALSE
    /\ args_matrix_out = FALSE /\ args_steps = 0 /\ args_gamma = 20 /\ run_pc = "idle"
    /\ run_exc = None /\ mobile = Unloaded /\ ref = Unloaded /\ step = 0 /\ n_updates = 0
    /\ params_nan = FALSE /\ P = Unbound /\ final_P = Unbound /\ final_transform = Unbound
    /\ aligned_pairs = <<>> /\ metrics = Unbound /\ printed = <<>>
    /\ out_file = NotWritten /\ matrix_file = NotWritten /\ log_results = Unbound


RotIdle == rot_params = <<0, 0, 0, 0, 0, 0>> /\ rot_pc = "idle" /\ rot_Ru = Unbound

CmpIdle ==
    /\ cmp_fs = [pair_file |-> FALSE, pairs |-> <<>>] /\ cmp_pc = "idle" /\ cmp_i = 0
    /\ cmp_totals = <<>> /\ cmp_table = <<>> /\ cmp_exc = None /\ cmp_summary = NotWritten

\* ------------------------------------------- loader and writer specification
IoInit ==
    /\ \/ \E k \in 0..MaxLines : \E l \in [1..k -> Catalog] : io_entry = Readable(l)
       \/ io_entry \in {Absent, Unopenable}
    /\ io_chain \in ChainArgs
    /\ io_ca_only \in BOOLEAN
    /\ io_pc = "start"
    /\ io_loaded = EmptyResult
    /\ io_coords = <<>>
    /\ io_written = <<>>
    /\ DecIdle /\ KIdle /\ RunIdle /\ RotIdle /\ CmpIdle

\* a call of parse_pdb
IoParse ==
    /\ io_pc = "start"
    /\ io_loaded' = parse_pdb(io_entry, io_chain, io_ca_only)
    /\ io_pc' = "parsed"
    /\ UNCHANGED <<io_entry, io_chain, io_ca_only, io_coords, io_written>>
    /\ UNCHANGED <<decVars, kVars, runVars, rotVars, cmpVars>>

\* a call of write_pdb with the loaded records and their shifted coordinates
IoWrite ==
    /\ io_pc = "parsed"
    /\ io_loaded.kind = "value"
    /\ \E d \in Shifts :
         /\ io_coords' = [i \in 1..Len(io_loaded.coords) |->
                            [k \in 1..3 |-> io_loaded.coords[i][k] + d[k]]]
         /\ io_written' = write_pdb(io_coords', io_loaded.atom_lines)
    /\ io_pc' = "written"
    /\ UNCHANGED <<io_entry, io_chain, io_ca_only, io_loaded>>
    /\ UNCHANGED <<decVars, kVars, runVars, rotVars, cmpVars>>

IoNext == IoParse \/ IoWrite

SpecIo == IoInit /\ [][IoNext]_vars

\* ---------------------------------------------------- decoder specification
MaxRows == 3
MaxCols == 2

\* The entries of the matrices tried.  The decoder reads only the order of the
\* entries, and equal confidences are visited in any order, so two values give
\* every combination of proposed columns and visiting order.
Entries01 == {0, 1}

DecInit ==
    /\ \E n \in 0..MaxRows, m \in 0..MaxCols : dec_P \in Matrix(n, m, Entries01)
    /\ dec_pc = "start"
    /\ dec_pairs = <<>>
    /\ IoIdle /\ KIdle /\ RunIdle /\ RotIdle /\ CmpIdle

\* a call of decode_alignment_matrix that returns
DecReturn ==
    /\ dec_pc = "start"
    /\ ~DecodeRaises(dec_P)
    /\ \E order \in ArgsortDescending(Confidences(dec_P), dec_P.rows) :
         dec_pairs' = decode_alignment_matrix(dec_P, order)
    /\ dec_pc' = "returned"
    /\ UNCHANGED dec_P
    /\ UNCHANGED <<ioVars, kVars, runVars, rotVars, cmpVars>>

\* a call of decode_alignment_matrix that raises
DecRaise ==
    /\ dec_pc = "start"
    /\ DecodeRaises(dec_P)
    /\ dec_pc' = "raised"
    /\ UNCHANGED <<dec_P, dec_pairs>>
    /\ UNCHANGED <<ioVars, kVars, runVars, rotVars, cmpVars>>

DecNext == DecReturn \/ DecRaise

SpecDecode == DecInit /\ [][DecNext]_vars

\* ------------------------------------------------ scale constant specification
MaxLen == 24

\* distances tried, in 1/100
Distances == {0, 150, 800}

KInit ==
    /\ k_len_mobile \in 1..MaxLen
    /\ k_len_ref \in 1..MaxLen
    /\ k_dists \in [1..2 -> Distances]
    /\ k_pc = "start"
    /\ k_s = <<>> /\ k_tm_ref = 0 /\ k_tm_mob = 0
    /\ IoIdle /\ DecIdle /\ RunIdle /\ RotIdle /\ CmpIdle

\* get_sinkhorn_alignment_score(coords_a, coords_b, len_mobile, len_ref): s_ij
KScorer ==
    /\ k_pc = "start"
    /\ k_s' = [i \in 1..Len(k_dists) |-> ScorerKernel(k_dists[i], k_len_mobile, k_len_ref)]
    /\ k_pc' = "scored"
    /\ UNCHANGED <<k_len_mobile, k_len_ref, k_dists, k_tm_ref, k_tm_mob>>
    /\ UNCHANGED <<ioVars, decVars, runVars, rotVars, cmpVars>>

\* tm_score_ref of main
KTmRef ==
    /\ k_pc = "scored"
    /\ k_tm_ref' = TmScore(k_dists, k_len_ref)
    /\ k_pc' = "tm_ref"
    /\ UNCHANGED <<k_len_mobile, k_len_ref, k_dists, k_s, k_tm_mob>>
    /\ UNCHANGED <<ioVars, decVars, runVars, rotVars, cmpVars>>

\* tm_score_mob of main
KTmMob ==
    /\ k_pc = "tm_ref"
    /\ k_tm_mob' = TmScore(k_dists, k_len_mobile)
    /\ k_pc' = "done"
    /\ UNCHANGED <<k_len_mobile, k_len_ref, k_dists, k_s, k_tm_ref>>
    /\ UNCHANGED <<ioVars, decVars, runVars, rotVars, cmpVars>>

KNext == KScorer \/ KTmRef \/ KTmMob

SpecD0 == KInit /\ [][KNext]_vars

\* ------------------------------------------------------- specification of main
RunArgs == <<fs_mobile, fs_ref, args_output, args_matrix_out, args_steps, args_gamma>>

RunInit ==
    /\ fs_mobile \in MobileFiles
    /\ fs_ref \in RefFiles
    /\ args_output \in BOOLEAN
    /\ args_matrix_out \in BOOLEAN
    /\ args_steps \in 0..MaxSteps
    /\ args_gamma \in Gammas
    /\ run_pc = "start"
    /\ run_exc = None /\ mobile = Unloaded /\ ref = Unloaded /\ step = 0 /\ n_updates = 0
    /\ params_nan = FALSE /\ P = Unbound /\ final_P = Unbound /\ final_transform = Unbound
    /\ aligned_pairs = <<>> /\ metrics = Unbound /\ printed = <<>>
    /\ out_file = NotWritten /\ matrix_file = NotWritten /\ log_results = Unbound
    /\ IoIdle /\ DecIdle /\ KIdle /\ RotIdle /\ CmpIdle

\* the test of main on the two loads with the reference left out (a mutant)
ShouldReturn_MobileOnly(mobile_coords, ref_coords) == mobile_coords.kind = "none"

\* `if mobile_coords is None or ref_coords is None: return`
ShouldReturn(mobile_coords, ref_coords) ==
    mobile_coords.kind = "none" \/ ref_coords.kind = "none"

\* main from its banner to the line before the loop: both loads, the return on
\* an empty one, the lengths, the zeroed parameters
Load ==
    /\ run_pc = "start"
    /\ LET m   == parse_pdb(fs_mobile, NoChain, TRUE)
           r   == IF m.kind = "raise" THEN Unloaded ELSE parse_pdb(fs_ref, NoChain, TRUE)
           out == BannerLines(Clock.Now)
                  \o (IF m.kind = "none" THEN ParseMessage(fs_mobile, Path.Mobile) ELSE <<>>)
                  \o (IF r.kind = "none" THEN ParseMessage(fs_ref, Path.Reference) ELSE <<>>)
       IN  /\ mobile' = m
           /\ ref' = r
           /\ IF m.kind = "raise" \/ r.kind = "raise"
              THEN /\ run_pc' = "crashed"
                   /\ run_exc' = (IF m.kind = "raise" THEN m.exc ELSE r.exc)
                   /\ printed' = out
              ELSE IF ShouldReturn(m, r)
              THEN /\ run_pc' = "aborted"
                   /\ run_exc' = None
                   /\ printed' = out
              ELSE /\ run_pc' = "loop"
                   /\ run_exc' = None
                   /\ printed' = out \o NamesLines(Len(m.sequence), Len(r.sequence))
                                     \o <<Txt.Finding>>
    /\ UNCHANGED <<RunArgs, step, n_updates, params_nan, P, final_P, final_transform,
                   aligned_pairs, metrics, out_file, matrix_file, log_results>>
    /\ UNCHANGED <<ioVars, decVars, kVars, rotVars, cmpVars>>

\* torch.exp(gamma * reward_matrix) in single precision: the rewards lie in
\* (0, 1], and exp overflows to inf above 88.72; the row sums then divide inf by
\* inf, P and the score are NaN, and so are the parameters after the update.
CanOverflow(gamma) == 100 * gamma > 8872

\* P with NaN in every entry: every entry compares alike
NaNMatrix(n, m) ==
    [rows |-> n, cols |-> m, val |-> [i \in 0..(n - 1) |-> [j \in 0..(m - 1) |-> 1]]]

\* one pass of the loop body: the scoring under the current parameters, the
\* progress line, the update
OptimizerStep ==
    /\ run_pc = "loop"
    /\ step < args_steps
    /\ \E nan \in (IF params_nan THEN {TRUE}
                   ELSE IF CanOverflow(args_gamma) THEN BOOLEAN ELSE {FALSE}) :
       \E mat \in (IF nan THEN {NaNMatrix(Len(mobile.coords), Len(ref.coords))}
                   ELSE Matrix(Len(mobile.coords), Len(ref.coords), Entries01)) :
       \E score \in (IF nan THEN {NaN} ELSE Scores) :
          /\ P' = <<[version |-> n_updates, mat |-> mat]>>
          /\ printed' = IF step % PrintFreq = 0 \/ step = args_steps - 1
                        THEN Append(printed, StepLine(step, score))
                        ELSE printed
          /\ params_nan' = nan
    /\ n_updates' = n_updates + 1
    /\ step' = step + 1
    /\ UNCHANGED <<RunArgs, run_pc, run_exc, mobile, ref, final_P, final_transform,
                   aligned_pairs, metrics, out_file, matrix_file, log_results>>
    /\ UNCHANGED <<ioVars, decVars, kVars, rotVars, cmpVars>>

\* the lines after the loop: final_P = P.detach(), the closing line, R_final and
\* u_final from the parameters as the last update left them
FinishLoop ==
    /\ run_pc = "loop"
    /\ step = args_steps
    /\ IF P = Unbound
       THEN /\ run_pc' = "crashed"
            /\ run_exc' = "UnboundLocalError"
            /\ UNCHANGED <<final_P, final_transform, printed>>
       ELSE /\ final_P' = P
            /\ printed' = printed \o <<Txt.SearchFinished, <<>>>>
            /\ \E T \in (IF params_nan THEN {NaNTransform} ELSE Transforms) :
                 final_transform' = <<T>>
            /\ run_pc' = "decode"
            /\ UNCHANGED run_exc
    /\ UNCHANGED <<RunArgs, mobile, ref, step, n_updates, params_nan, P, aligned_pairs,
                   metrics, out_file, matrix_file, log_results>>
    /\ UNCHANGED <<ioVars, decVars, kVars, rotVars, cmpVars>>

\* what the analysis computes for a non-empty list of pairs
Metrics(pairs) ==
    [aligned_len  |-> Len(pairs),
     kabsch_rmsd  |-> kabsch_rmsd([p \in 1..Len(pairs) |-> mobile.coords[pairs[p][1] + 1]],
                                  [p \in 1..Len(pairs) |-> ref.coords[pairs[p][2] + 1]]),
     tm_score_ref |-> tm_score(pairs, mobile.coords, ref.coords, final_transform[1],
                               Len(ref.sequence)),
     tm_score_mob |-> tm_score(pairs, mobile.coords, ref.coords, final_transform[1],
                               Len(mobile.sequence)),
     seq_id       |-> seq_id(pairs, mobile.sequence, ref.sequence)]

\* the lines of the analysis
AnalysisLines(pairs, v) ==
    <<Txt.Analysis, FoundLine(Len(pairs))>>
    \o (IF Len(pairs) > 0
        THEN <<KabschLine(v.aligned_len, v.kabsch_rmsd),
               TmRefLine(Len(ref.sequence), v.tm_score_ref),
               TmMobLine(Len(mobile.sequence), v.tm_score_mob),
               SeqIdLine(v.seq_id)>>
        ELSE <<>>)
    \o <<<<>>, Txt.Pairs>> \o PairLines(pairs)

\* decoding final_P and the alignment analysis
Analyse ==
    /\ run_pc = "decode"
    /\ IF DecodeRaises(final_P[1].mat)
       THEN /\ run_pc' = "crashed"
            /\ run_exc' = "IndexError"
            /\ UNCHANGED <<aligned_pairs, metrics, printed>>
       ELSE /\ \E order \in ArgsortDescending(Confidences(final_P[1].mat), final_P[1].mat.rows) :
               LET pairs == decode_alignment_matrix(final_P[1].mat, order)
                   v     == Metrics(pairs)
               IN  /\ aligned_pairs' = pairs
                   /\ metrics' = IF Len(pairs) > 0 THEN <<v>> ELSE Unbound
                   /\ printed' = printed \o AnalysisLines(pairs, v)
            /\ run_pc' = "analysed"
            /\ UNCHANGED run_exc
    /\ UNCHANGED <<RunArgs, mobile, ref, step, n_updates, params_nan, P, final_P,
                   final_transform, out_file, matrix_file, log_results>>
    /\ UNCHANGED <<ioVars, decVars, kVars, rotVars, cmpVars>>

\* the content of the output structure file
OutputLines(full, T) ==
    IF T.nan THEN [i \in 1..Len(full.atom_lines) |-> WriteLineNaN(full.atom_lines[i])]
    ELSE write_pdb(final_full_coords_out(full.coords, mean(full.coords), T, mean(ref.coords)),
                   full.atom_lines)

\* `if args.output:` and its block: the full-atom reload, the centering by the
\* centroid of what was reloaded, the transform, the file
WriteStructure ==
    /\ run_pc = "analysed"
    /\ IF args_output
       THEN LET full == parse_pdb(fs_mobile, NoChain, FALSE)
            IN  IF full.kind = "value"
                THEN /\ out_file' = Written(OutputLines(full, final_transform[1]))
                     /\ printed' = printed \o WriterLinesBefore \o WriterLinesAfter
                     /\ run_pc' = "written"
                     /\ UNCHANGED run_exc
                ELSE /\ run_pc' = "crashed"
                     /\ run_exc' = (IF full.kind = "raise" THEN full.exc ELSE "AttributeError")
                     /\ printed' = printed \o <<<<>>, Txt.Generating>>
                                   \o (IF full.kind = "none"
                                       THEN ParseMessage(fs_mobile, Path.Mobile) ELSE <<>>)
                     /\ UNCHANGED out_file
       ELSE /\ run_pc' = "written"
            /\ UNCHANGED <<out_file, printed, run_exc>>
    /\ UNCHANGED <<RunArgs, mobile, ref, step, n_updates, params_nan, P, final_P,
                   final_transform, aligned_pairs, metrics, matrix_file, log_results>>
    /\ UNCHANGED <<ioVars, decVars, kVars, rotVars, cmpVars>>

\* `if args.matrix_out:` and its block
WriteReport ==
    /\ run_pc = "written"
    /\ IF args_matrix_out
       THEN /\ matrix_file' = Written(MatrixReport(final_transform[1]))
            /\ printed' = printed \o <<<<>>, Txt.Saving, Txt.Saved1 \o Path.Matrix \o Txt.Quote>>
       ELSE UNCHANGED <<matrix_file, printed>>
    /\ run_pc' = "reported"
    /\ UNCHANGED <<RunArgs, run_exc, mobile, ref, step, n_updates, params_nan, P, final_P,
                   final_transform, aligned_pairs, metrics, out_file, log_results>>
    /\ UNCHANGED <<ioVars, decVars, kVars, rotVars, cmpVars>>

\* the closing lines of main
Finish ==
    /\ run_pc = "reported"
    /\ printed' = printed \o FinishLines(Clock.Now, Clock.Elapsed)
    /\ run_pc' = "finished"
    /\ UNCHANGED <<RunArgs, run_exc, mobile, ref, step, n_updates, params_nan, P, final_P,
                   final_transform, aligned_pairs, metrics, out_file, matrix_file,
                   log_results>>
    /\ UNCHANGED <<ioVars, decVars, kVars, rotVars, cmpVars>>

\* compare_results.py reading the log the run's standard output was sent to
ParseLog ==
    /\ run_pc \in {"finished", "aborted", "crashed"}
    /\ log_results = Unbound
    /\ log_results' = <<parse_gemini_log(LogFile(printed))>>
    /\ UNCHANGED <<RunArgs, run_pc, run_exc, mobile, ref, step, n_updates, params_nan, P,
                   final_P, final_transform, aligned_pairs, metrics, printed, out_file,
                   matrix_file>>
    /\ UNCHANGED <<ioVars, decVars, kVars, rotVars, cmpVars>>

Next ==
    \/ Load
    \/ OptimizerStep
    \/ FinishLoop
    \/ Analyse
    \/ WriteStructure
    \/ WriteReport
    \/ Finish
    \/ ParseLog

Spec == RunInit /\ [][Next]_vars

\* ------------------------------------------------- rotation specification
RotInit ==
    /\ rot_params \in ParamVectors
    /\ rot_pc = "start"
    /\ rot_Ru = Unbound
    /\ IoIdle /\ DecIdle /\ KIdle /\ RunIdle /\ CmpIdle

\* a call of get_transformation_matrix with the current parameters
RotCall ==
    /\ rot_pc = "start"
    /\ rot_Ru' = <<get_transformation_matrix(rot_params)>>
    /\ rot_pc' = "returned"
    /\ UNCHANGED rot_params
    /\ UNCHANGED <<ioVars, decVars, kVars, runVars, cmpVars>>

\* optimizer.step(): the parameters are moved, the next pass calls again
RotUpdate ==
    /\ rot_pc = "returned"
    /\ rot_params' \in ParamVectors
    /\ rot_pc' = "start"
    /\ rot_Ru' = Unbound
    /\ UNCHANGED <<ioVars, decVars, kVars, runVars, cmpVars>>

RotNext == RotCall \/ RotUpdate

SpecRot == RotInit /\ [][RotNext]_vars

\* --------------------------------------------- specification of the aggregator
\* the pairs listed in RPIC_all/id_pair.txt, up to
MaxPairs == 2

\* The files compare_results.main may find.  The log of a run in one of the
\* three output directories is absent, the log of a finished run, the log of a
\* finished run whose scores are NaN, or the log of a run that ended before its
\* analysis; the official TM-align log of a pair is absent or there.
CmpInit ==
    /\ LET Done(tm) == Readable(LogFile(<<Txt.Analysis, FoundLine(2), KabschLine(2, 125),
                                          TmRefLine(3, tm), TmMobLine(2, tm), SeqIdLine(500)>>))
           Early    == Readable(LogFile(<<Txt.Started, Txt.Finding>>))
           Official == Readable(
             <<"A", "l", "i", "g", "n", "e", "d", " ", "l", "e", "n", "g", "t", "h", "=", " ",
               " ", " ", "2", ",", " ", "R", "M", "S", "D", "=", " ", " ", " ", "1", ".", "2",
               "5", ",", " ", "S", "e", "q", "_", "I", "D", "=", "n", "_", "i", "d", "e", "n",
               "t", "i", "c", "a", "l", "/", "n", "_", "a", "l", "i", "g", "n", "e", "d", "=",
               " ", "0", ".", "5", "0", "0", "\n", "T", "M", "-", "s", "c", "o", "r", "e", "=",
               " ", "0", ".", "5", "1", "2", "3", "4", " ", "(", "i", "f", " ", "n", "o", "r",
               "m", "a", "l", "i", "z", "e", "d", " ", "b", "y", " ", "l", "e", "n", "g", "t",
               "h", " ", "o", "f", " ", "C", "h", "a", "i", "n", "_", "1", ",", " ", "i", ".",
               "e", ".", ",", " ", "L", "N", "=", "2", ",", " ", "d", "0", "=", "0", ".", "5",
               "0", ")", "\n", "T", "M", "-", "s", "c", "o", "r", "e", "=", " ", "0", ".", "4",
               "1", "2", "3", "4", " ", "(", "i", "f", " ", "n", "o", "r", "m", "a", "l", "i",
               "z", "e", "d", " ", "b", "y", " ", "l", "e", "n", "g", "t", "h", " ", "o", "f",
               " ", "C", "h", "a", "i", "n", "_", "2", ",", " ", "i", ".", "e", ".", ",", " ",
               "L", "N", "=", "3", ",", " ", "d", "0", "=", "0", ".", "5", "0", ")", "\n">>)
           PairLogs == [g3       : {Absent, Done(Fin(43210))},
                        g5       : {Absent, Done(Fin(54321)), Done(NaN), Early},
                        g7       : {Done(Fin(65432))},
                        official : {Absent, Official}]
       IN  \/ cmp_fs = [pair_file |-> FALSE, pairs |-> <<>>]
           \/ \E n \in 0..MaxPairs :
                 \E pairs \in [1..n -> PairLogs] : cmp_fs = [pair_file |-> TRUE, pairs |-> pairs]
    /\ cmp_pc = "start" /\ cmp_i = 0
    /\ cmp_totals = <<>> /\ cmp_table = <<>> /\ cmp_exc = None /\ cmp_summary = NotWritten
    /\ IoIdle /\ DecIdle /\ KIdle /\ RunIdle /\ RotIdle

\* main up to its loop: the test for the pair file, the list of pairs, the head
\* of the table and the four totals.  A line of the table is kept as a record
\* of what it shows.
CmpStart ==
    /\ cmp_pc = "start"
    /\ IF ~cmp_fs.pair_file
       THEN /\ cmp_pc' = "returned"
            /\ UNCHANGED <<cmp_i, cmp_totals, cmp_table>>
       ELSE LET zero == [len |-> 0, rmsd |-> 0, tm1 |-> 0, tm2 |-> 0, count |-> 0]
            IN  /\ cmp_table' = <<[kind |-> "separator"], [kind |-> "header1"],
                                  [kind |-> "header2"], [kind |-> "separator"]>>
                /\ cmp_totals' = [g5 |-> zero, g3 |-> zero, g7 |-> zero, official |-> zero]
                /\ cmp_i' = 1
                /\ cmp_pc' = "loop"
    /\ UNCHANGED <<cmp_fs, cmp_exc, cmp_summary>>
    /\ UNCHANGED <<ioVars, decVars, kVars, runVars, rotVars>>

\* one pass of the loop over the pairs.  Sums of RMSDs and scores are in 1/100000.
CmpPair ==
    /\ cmp_pc = "loop"
    /\ cmp_i <= Len(cmp_fs.pairs)
    /\ LET logs == cmp_fs.pairs[cmp_i]
           \* float(s) in 1/100000, for a text float() accepts
           Float(t) ==
               LET dots == {i \in 1..Len(t) : t[i] = "."}
                   p    == IF dots = {} THEN Len(t) + 1 ELSE CHOOSE i \in dots : TRUE
                   fr   == SubSeq(t, p + 1, Len(t)) \o <<"0", "0", "0", "0", "0">>
               IN  100000 * DigitsVal(SubSeq(t, 1, p - 1)) + DigitsVal(SubSeq(fr, 1, 5))
           \* the four += of one totals dictionary, up to the first that raises
           Add(totals, results) ==
               IF results.len = NA THEN [raised |-> FALSE, totals |-> totals]
               ELSE LET t1 == [totals EXCEPT !.len = @ + DigitsVal(results.len)]
                    IN  IF ~FloatParses(results.rmsd) THEN [raised |-> TRUE, totals |-> t1]
                        ELSE LET t2 == [t1 EXCEPT !.rmsd = @ + Float(results.rmsd)]
                        IN  IF ~FloatParses(results.tm1) THEN [raised |-> TRUE, totals |-> t2]
                        ELSE LET t3 == [t2 EXCEPT !.tm1 = @ + Float(results.tm1)]
                        IN  IF ~FloatParses(results.tm2) THEN [raised |-> TRUE, totals |-> t3]
                        ELSE [raised |-> FALSE,
                              totals |-> [t3 EXCEPT !.tm2 = @ + Float(results.tm2),
                                                    !.count = @ + 1]]
       IN  IF Absent \in {logs.g5, logs.g3, logs.g7}
           THEN /\ cmp_i' = cmp_i + 1
                /\ UNCHANGED <<cmp_pc, cmp_totals, cmp_table, cmp_exc>>
           ELSE LET r5 == parse_gemini_log(logs.g5.lines)
                    r3 == parse_gemini_log(logs.g3.lines)
                    r7 == parse_gemini_log(logs.g7.lines)
                    rt == parse_tmalign_log(logs.official)
                    a5 == Add(cmp_totals.g5, r5)
                    a3 == Add(cmp_totals.g3, r3)
                    a7 == Add(cmp_totals.g7, r7)
                    at == Add(cmp_totals.official, rt)
                IN  /\ cmp_totals' =
                          [g5       |-> a5.totals,
                           g3       |-> IF a5.raised THEN cmp_totals.g3 ELSE a3.totals,
                           g7       |-> IF a5.raised \/ a3.raised THEN cmp_totals.g7
                                        ELSE a7.totals,
                           official |-> IF a5.raised \/ a3.raised \/ a7.raised
                                        THEN cmp_totals.official ELSE at.totals]
                    /\ IF a5.raised \/ a3.raised \/ a7.raised \/ at.raised
                       THEN /\ cmp_pc' = "crashed"
                            /\ cmp_exc' = "ValueError"
                            /\ UNCHANGED <<cmp_i, cmp_table>>
                       ELSE /\ cmp_table' = Append(cmp_table,
                                   [kind |-> "row", pair |-> cmp_i, g3 |-> r3, g5 |-> r5,
                                    g7 |-> r7, official |-> rt])
                            /\ cmp_i' = cmp_i + 1
                            /\ UNCHANGED <<cmp_pc, cmp_exc>>
    /\ UNCHANGED <<cmp_fs, cmp_summary>>
    /\ UNCHANGED <<ioVars, decVars, kVars, runVars, rotVars>>

\* after the loop: the closing separator and the averages.  An average of
\* lengths and of RMSDs is in 1/100, an average of scores in 1/10000.
CmpAverages ==
    /\ cmp_pc = "loop"
    /\ cmp_i > Len(cmp_fs.pairs)
    /\ LET closed == Append(cmp_table, [kind |-> "separator"])
           avg(t) == [len  |-> RoundDiv(100 * t.len, t.count),
                      rmsd |-> RoundDiv(t.rmsd, 1000 * t.count),
                      tm1  |-> RoundDiv(t.tm1, 10 * t.count),
                      tm2  |-> RoundDiv(t.tm2, 10 * t.count)]
       IN  IF cmp_totals.g5.count > 0
           THEN IF 0 \in {cmp_totals.g3.count, cmp_totals.g7.count, cmp_totals.official.count}
                THEN /\ cmp_table' = closed
                     /\ cmp_pc' = "crashed"
                     /\ cmp_exc' = "ZeroDivisionError"
                ELSE /\ cmp_table' = closed \o
                            <<[kind |-> "average", g3 |-> avg(cmp_totals.g3),
                               g5 |-> avg(cmp_totals.g5), g7 |-> avg(cmp_totals.g7),
                               official |-> avg(cmp_totals.official)],
                              [kind |-> "separator"]>>
                     /\ cmp_pc' = "write"
                     /\ UNCHANGED cmp_exc
           ELSE /\ cmp_table' = closed
                /\ cmp_pc' = "write"
                /\ UNCHANGED cmp_exc
    /\ UNCHANGED <<cmp_fs, cmp_i, cmp_totals, cmp_summary>>
    /\ UNCHANGED <<ioVars, decVars, kVars, runVars, rotVars>>

\* the table is printed and written to comparison_summary.txt
CmpWrite ==
    /\ cmp_pc = "write"
    /\ cmp_summary' = Written(cmp_table)
    /\ cmp_pc' = "finished"
    /\ UNCHANGED <<cmp_fs, cmp_i, cmp_totals, cmp_table, cmp_exc>>
    /\ UNCHANGED <<ioVars, decVars, kVars, runVars, rotVars>>

CmpNext == CmpStart \/ CmpPair \/ CmpAverages \/ CmpWrite

SpecCompare == CmpInit /\ [][CmpNext]_vars

\* ------------------------------------------------ claims on parse_pdb/write_pdb
\* Column k (from 0) of a line, "" when the line is too short.
Col(line, k) == IF Len(line) > k THEN line[k + 1] ELSE ""

ResidueUid(line) == <<Col(line, 21), Slice(line, 22, 27)>>

\* The record passes the atom-name, chain and alternate-location filters.
PassesFilters(line, chain, ca) ==
    /\ startswith(line, ATOM)
    /\ ca => strip(Slice(line, 12, 16)) = CA
    /\ chain # NoChain => strip(<<Col(line, 21)>>) = chain
    /\ Col(line, 16) \in {" ", "A"}

\* The positions in the file of the records that pass the filters.
Survivors(lines, chain, ca) == {i \in 1..Len(lines) : PassesFilters(lines[i], chain, ca)}

\* The survivors that are the first of their residue (all of them outside
\* alpha-carbon-only mode, where nothing is deduplicated).
Retained(lines, chain, ca) ==
    {i \in Survivors(lines, chain, ca) :
        ca => \A j \in Survivors(lines, chain, ca) :
                 j < i => ResidueUid(lines[j]) # ResidueUid(lines[i])}

\* An atom record the loader cannot read: cut off before the columns it indexes,
\* or with a coordinate field that is no number.
Malformed(line) ==
    /\ startswith(line, ATOM)
    /\ Len(line) <= 21 \/ \E k \in 1..3 : ~FloatParses(CoordFields(line)[k])

\* the lines at the positions S, in file order
RECURSIVE LinesAt(_, _)
LinesAt(lines, S) ==
    IF lines = <<>> THEN <<>>
    ELSE LinesAt(SubSeq(lines, 1, Len(lines) - 1), S)
         \o (IF Len(lines) \in S THEN <<lines[Len(lines)]>> ELSE <<>>)

IoReturned == io_pc # "start"

IoAligned ==
    /\ io_loaded.kind = "value"
    /\ Len(io_loaded.coords) > 0
    /\ Len(io_loaded.atom_lines) = Len(io_loaded.coords)
    /\ Len(io_loaded.sequence) = Len(io_loaded.coords)

\* C2 as stated: the empty result, without raising, whenever the path cannot be
\* opened and whenever no record survives the filters; three aligned non-empty
\* sequences in every other case.
C2_AsStated ==
    IoReturned =>
        IF io_entry.kind # "file" \/ Survivors(io_entry.lines, io_chain, io_ca_only) = {}
        THEN io_loaded = EmptyResult
        ELSE IoAligned

\* C2 as amended: the empty result when the file does not exist, and when the
\* file was read without error and no record survives the filters; an error is
\* raised, not the empty result, when the path exists and cannot be opened, and
\* otherwise only for a file holding a malformed atom record; a call that
\* neither raises nor finds the filters empty returns three aligned non-empty
\* sequences.
C2_Amended ==
    IoReturned =>
        /\ io_entry.kind = "absent" => io_loaded = EmptyResult
        /\ io_entry.kind = "unopenable" => io_loaded.kind = "raise"
        /\ io_entry.kind = "file" /\ io_loaded.kind = "raise"
             => \E i \in 1..Len(io_entry.lines) : Malformed(io_entry.lines[i])
        /\ io_entry.kind = "file" /\ io_loaded.kind # "raise"
             => IF Survivors(io_entry.lines, io_chain, io_ca_only) = {}
                THEN io_loaded = EmptyResult
                ELSE IoAligned

\* a file with atom records none of which survives the filters was loaded
C2_Witness ==
    /\ io_pc = "parsed"
    /\ io_entry.kind = "file"
    /\ \E i \in 1..Len(io_entry.lines) : startswith(io_entry.lines[i], ATOM)
    /\ Survivors(io_entry.lines, io_chain, io_ca_only) = {}
    /\ io_loaded = EmptyResult

\* C4: in alpha-carbon-only mode the loaded records are, in file order, exactly
\* the first record of each residue unique id among the CA atom records whose
\* alternate location is blank or A (and that pass the chain filter), so no
\* residue unique id occurs twice and a record at another alternate location
\* does not keep a later blank/A record of its residue out.
C4_FirstPerResidue ==
    IoReturned /\ io_ca_only /\ io_loaded.kind = "value" =>
        /\ io_loaded.atom_lines =
             LinesAt(io_entry.lines, Retained(io_entry.lines, io_chain, TRUE))
        /\ \A i, j \in 1..Len(io_loaded.atom_lines) :
             i # j => ResidueUid(io_loaded.atom_lines[i]) # ResidueUid(io_loaded.atom_lines[j])

\* a CA at alternate location B came before the CA at A of the same residue,
\* and the one at A was loaded
C4_Witness ==
    /\ io_pc = "parsed" /\ io_ca_only /\ io_loaded.kind = "value"
    /\ \E i, j \in 1..Len(io_entry.lines) :
         /\ i < j
         /\ io_entry.lines[i] = Line.CA2altB
         /\ io_entry.lines[j] = Line.CA2altA
    /\ \E k \in 1..Len(io_loaded.atom_lines) : io_loaded.atom_lines[k] = Line.CA2altA

\* C5 as stated: write_pdb writes one line per loaded record, in order, equal
\* to the record in columns 0-29 and from column 54 on.
C5_AsStated ==
    io_pc = "written" =>
        /\ Len(io_written) = Len(io_loaded.atom_lines)
        /\ \A i \in 1..Len(io_written) :
             /\ Slice(io_written[i], 0, 30) = Slice(io_loaded.atom_lines[i], 0, 30)
             /\ SliceFrom(io_written[i], 54) = SliceFrom(io_loaded.atom_lines[i], 54)

\* C9: when a record the loader retains (it passes the filters and is the first
\* of its residue) has a coordinate field that is no number, parse_pdb raises:
\* it returns neither the empty result nor any sequences.
C9_MalformedPropagates ==
    IoReturned /\ io_entry.kind = "file"
      /\ (\E i \in Retained(io_entry.lines, io_chain, io_ca_only) :
            \E k \in 1..3 : ~FloatParses(CoordFields(io_entry.lines[i])[k]))
    => /\ io_loaded.kind = "raise"
       /\ io_loaded.coords = <<>> /\ io_loaded.atom_lines = <<>> /\ io_loaded.sequence = <<>>

\* a well-formed record was retained before the one with the bad field, and the
\* call ended in the ValueError of float()
C9_Witness ==
    /\ io_pc = "parsed" /\ io_entry.kind = "file" /\ Len(io_entry.lines) >= 2
    /\ io_entry.lines[1] = Line.CA1
    /\ io_entry.lines[Len(io_entry.lines)] = Line.BadX
    /\ Len(io_entry.lines) \in Retained(io_entry.lines, io_chain, io_ca_only)
    /\ io_loaded = Raised("ValueError")

\* ------------------------------------------- claims on decode_alignment_matrix
\* the list is strictly ascending by mobile index, no reference index occurs
\* twice, and it is no longer than the smaller side of the matrix M
WellFormedAlignment(pairs, M) ==
    /\ \A k \in 1..(Len(pairs) - 1) : pairs[k][1] < pairs[k + 1][1]
    /\ \A k, l \in 1..Len(pairs) : k # l => pairs[k][2] # pairs[l][2]
    /\ Len(pairs) <= Min(M.rows, M.cols)

\* C1 as stated: for every P, of any shape, decode_alignment_matrix returns a
\* list that is strictly ascending by mobile index, repeats no reference index
\* and has at most min(rows, columns) pairs.
C1_AsStated ==
    dec_pc \notin {"start", "idle"} =>
        dec_pc = "returned" /\ WellFormedAlignment(dec_pairs, dec_P)

\* C1 as amended: for every P with at least one column (P[rows, 0] makes
\* torch.argmax raise), the call returns, and the list it returns is strictly
\* ascending by mobile index, repeats no reference index and has at most
\* min(rows, columns) pairs.
C1_Amended ==
    dec_pc \notin {"start", "idle"} /\ dec_P.cols > 0 =>
        dec_pc = "returned" /\ WellFormedAlignment(dec_pairs, dec_P)

\* two rows proposed the same column and the decoder kept one of them, beside a
\* row matched to the other column
C1_Witness ==
    /\ dec_pc = "returned"
    /\ dec_P.rows = 3 /\ dec_P.cols = 2
    /\ BestCols(dec_P)[0] = BestCols(dec_P)[1]
    /\ Len(dec_pairs) = 2

\* C12: the decoder is greedy without fallback.  Every returned pair joins a row
\* to that row's arg-max column, the matched columns are exactly the distinct
\* arg-max columns of the rows, as many pairs as such columns are returned (a
\* row whose column was taken stays unmatched), and the row a column is paired
\* with has the largest confidence among the rows proposing that column.
C12_GreedyNoFallback ==
    dec_pc = "returned" =>
        LET rows == 0..(dec_P.rows - 1)
            best == BestCols(dec_P)
            conf == Confidences(dec_P)
            proposed == {best[i] : i \in rows}
        IN  /\ {dec_pairs[k][2] : k \in 1..Len(dec_pairs)} = proposed
            /\ Len(dec_pairs) = Cardinality(proposed)
            /\ \A k \in 1..Len(dec_pairs) :
                   LET i == dec_pairs[k][1]
                       j == dec_pairs[k][2]
                   IN  /\ i \in rows
                       /\ best[i] = j
                       /\ \A r \in rows : best[r] = j => conf[r] <= conf[i]

\* three rows propose one column with unequal confidences: the decoder returned
\* the single pair of a most confident row and left the second column, which no
\* row proposed, unmatched although two rows stayed without a partner
C12_Witness ==
    /\ dec_pc = "returned"
    /\ dec_P.rows = 3 /\ dec_P.cols = 2
    /\ \A i \in 0..2 : BestCols(dec_P)[i] = 0
    /\ Confidences(dec_P)[0] < Confidences(dec_P)[2]
    /\ Len(dec_pairs) = 1
    /\ dec_pairs[1][1] # 0

\* --------------------------------------------------------- claims on get_d0
\* the largest r in lo..hi with r^3 <= t
RECURSIVE CubeRootBetween(_, _, _)
CubeRootBetween(lo, hi, t) ==
    IF lo = hi THEN lo
    ELSE LET mid == (lo + hi + 1) \div 2
         IN  IF mid * mid * mid <= t THEN CubeRootBetween(mid, hi, t)
             ELSE CubeRootBetween(lo, mid - 1, t)

\* 1.24 * (L - 15)^(1/3) - 1.8 in 1/100, the cube root cut to two decimals
LiteralD0(L) == (124 * CubeRootBetween(0, 1000, 1000000 * (L - 15))) \div 100 - 180

\* the kernel for a distance d under the scale constant of length L, written
\* out from the formula
LiteralKernel(d, L) ==
    LET v == IF L <= 15 THEN 50 ELSE LiteralD0(L)
    IN  Ratio(v * v, v * v + d * d)

\* C10: get_d0(L) is 0.5 for L <= 15 and the literal 1.24*(L-15)^(1/3) - 1.8
\* for L > 15, -0.56 at L = 16, and the scorer (with the reference length) and
\* the two TM-scores (reference length, mobile length) compute with that value.
C10_LiteralD0 ==
    /\ \A L \in {k_len_mobile, k_len_ref} :
         /\ L <= 15 => get_d0(L) = 50
         /\ L > 15 => get_d0(L) = LiteralD0(L)
         /\ L = 16 => get_d0(L) = -56
    /\ k_pc \in {"scored", "tm_ref", "done"} =>
         \A i \in 1..Len(k_dists) : k_s[i] = LiteralKernel(k_dists[i], k_len_ref)
    /\ k_pc \in {"tm_ref", "done"} =>
         k_tm_ref = SumSeq([i \in 1..Len(k_dists) |-> LiteralKernel(k_dists[i], k_len_ref)])
                      \div k_len_ref
    /\ k_pc = "done" =>
         k_tm_mob = SumSeq([i \in 1..Len(k_dists) |-> LiteralKernel(k_dists[i], k_len_mobile)])
                      \div k_len_mobile

\* a reference of 16 residues and a mobile of 20 were scored with the negative
\* constants -0.56 and about 0.32 (L = 20)
C10_Witness ==
    /\ k_pc = "done"
    /\ k_len_ref = 16 /\ k_len_mobile = 20
    /\ get_d0(k_len_ref) = -56 /\ get_d0(k_len_mobile) < 50
    /\ k_tm_ref > 0

\* ----------------------------------------------------------- claims on main
\* C3: when the load of the mobile structure or the load of the reference
\* structure returned the empty result, main has ended before any optimizer
\* step ran, and neither the output structure file nor the matrix report is
\* written, whatever --output and --matrix_out say.
C3_AbortsWithoutOutput ==
    (mobile.kind = "none" \/ ref.kind = "none") =>
        /\ run_pc \in {"aborted", "crashed"}
        /\ n_updates = 0
        /\ P = Unbound
        /\ out_file = NotWritten
        /\ matrix_file = NotWritten

\* C3, its case: a loaded mobile structure, an empty reference, both paths
\* configured, the run over
C3_Witness ==
    /\ run_pc = "aborted"
    /\ mobile.kind = "value"
    /\ ref.kind = "none"
    /\ args_output /\ args_matrix_out
    /\ log_results # Unbound

\* C6 as stated: the written structure is the reloaded full-atom set re-centered
\* by the centroid of the alpha-carbon set the optimizer worked on, moved by the
\* final (R, u) and shifted by the reference centroid.
C6_AsStated ==
    (out_file.written /\ ~final_transform[1].nan) =>
        LET full == parse_pdb(fs_mobile, NoChain, FALSE)
        IN  out_file.lines
            = write_pdb(final_full_coords_out(full.coords, mean(mobile.coords),
                                              final_transform[1], mean(ref.coords)),
                        full.atom_lines)

\* C7 as stated: for every step count, once both structures are loaded the loop
\* makes exactly that many updates and the run goes on to decoding with a final
\* (R, u) and a final P.
C7_AsStated ==
    (mobile.kind = "value" /\ ref.kind = "value") =>
        /\ run_exc # "UnboundLocalError"
        /\ run_pc = "loop" => n_updates = step /\ step <= args_steps
        /\ run_pc # "loop" =>
              /\ n_updates = args_steps
              /\ final_P # Unbound
              /\ final_transform # Unbound

\* the run printed the heading of the alignment analysis
ReachedAnalysis == \E i \in 1..Len(printed) : printed[i] = Txt.Analysis

\* the pair count and the RMSD of the log are the printed ones
CountAndRmsdMatched ==
    /\ metrics # Unbound
    /\ log_results[1].len = NatDigits(Len(aligned_pairs))
    /\ log_results[1].rmsd = FormatFixed(metrics[1].kabsch_rmsd, 0, 2)

\* tm1 is the printed mobile-normalized score, tm2 the reference-normalized one
TmMatched ==
    /\ log_results[1].tm1 = FormatFloat(metrics[1].tm_score_mob, 0, 5)
    /\ log_results[1].tm2 = FormatFloat(metrics[1].tm_score_ref, 0, 5)

\* C8 as stated: for every run that reached the analysis, parse_gemini_log
\* returns the four printed values as len, rmsd, tm1 (mobile) and tm2
\* (reference), none of them left at N/A.
C8_AsStated ==
    (log_results # Unbound /\ ReachedAnalysis) =>
        /\ CountAndRmsdMatched
        /\ TmMatched
        /\ NA \notin {log_results[1].len, log_results[1].rmsd,
                      log_results[1].tm1, log_results[1].tm2}

\* C8 as amended: for every run that reached the analysis, len and rmsd are the
\* printed pair count and RMSD; tm1 and tm2 are the printed mobile- and
\* reference-normalized scores when these are numbers, and stay N/A when the
\* parameters went NaN and the two scores are printed as "nan".
C8_Amended ==
    (log_results # Unbound /\ ReachedAnalysis) =>
        /\ CountAndRmsdMatched
        /\ NA \notin {log_results[1].len, log_results[1].rmsd}
        /\ IF final_transform[1].nan
           THEN log_results[1].tm1 = NA /\ log_results[1].tm2 = NA
           ELSE TmMatched /\ NA \notin {log_results[1].tm1, log_results[1].tm2}

\* C8, its case: a finished run with numbers for scores, which differ between
\* the two normalizations, and its log parsed
C8_Witness ==
    /\ log_results # Unbound
    /\ run_pc = "finished"
    /\ ReachedAnalysis
    /\ ~final_transform[1].nan
    /\ metrics[1].tm_score_mob # metrics[1].tm_score_ref
    /\ metrics[1].tm_score_mob # Fin(0)

\* C13 as stated: the P handed to the decoder was computed from the parameter
\* vector that yields the final (R, u): the P of the decoded alignment and the
\* final transform, which is taken from the parameters as all n_updates calls of
\* optimizer.step() left them, belong to the same optimizer state.
C13_AsStated ==
    (final_P # Unbound /\ final_transform # Unbound) =>
        final_P[1].version = n_updates

\* C14: in every run that passed loading and the optimizer loop and whose
\* decoding is over, the decoder returned at least one pair, no IndexError or
\* ZeroDivisionError ended the run, the metrics are computed, and the Kabsch
\* RMSD line, both TM-score lines and the sequence-identity line are among the
\* printed lines.
C14_NeverEmptyAlignment ==
    (final_P # Unbound /\ run_pc # "decode") =>
        /\ Len(aligned_pairs) > 0
        /\ run_exc \notin {"IndexError", "ZeroDivisionError"}
        /\ metrics # Unbound
        /\ metrics[1].aligned_len = Len(aligned_pairs)
        /\ \A l \in {KabschLine(Len(aligned_pairs), metrics[1].kabsch_rmsd),
                     TmRefLine(Len(ref.sequence), metrics[1].tm_score_ref),
                     TmMobLine(Len(mobile.sequence), metrics[1].tm_score_mob),
                     SeqIdLine(metrics[1].seq_id)} :
               \E i \in 1..Len(printed) : printed[i] = l

\* C14, its case: two mobile residues proposed the one reference column, the
\* decoder kept one pair, and the run went on to its end
C14_Witness ==
    /\ run_pc = "finished"
    /\ Len(mobile.coords) = 2
    /\ \A i \in 0..1 : BestCols(final_P[1].mat)[i] = 0
    /\ Len(aligned_pairs) = 1
    /\ metrics # Unbound

\* ------------------------------------- claims on get_transformation_matrix
\* |a - b| <= tol
Near(a, b, tol) == a - b <= tol /\ b - a <= tol

\* the determinant of a 3x3 matrix with entries in 1/10000, in 1/10000
Det(R) ==
    RoundDiv(R[1][1] * RoundDiv(R[2][2] * R[3][3] - R[2][3] * R[3][2], 10000), 10000)
    - RoundDiv(R[1][2] * RoundDiv(R[2][1] * R[3][3] - R[2][3] * R[3][1], 10000), 10000)
    + RoundDiv(R[1][3] * RoundDiv(R[2][1] * R[3][2] - R[2][2] * R[3][1], 10000), 10000)

\* C11: for every parameter vector, what get_transformation_matrix returns is a
\* matrix R with R^T R = I and det(R) = 1, both within 1/100, and the last three
\* parameters unchanged as the translation.
C11_RotationAndTranslation ==
    rot_pc = "returned" =>
        LET R   == rot_Ru[1].R
            Rt  == <<<<R[1][1], R[2][1], R[3][1]>>, <<R[1][2], R[2][2], R[3][2]>>,
                     <<R[1][3], R[2][3], R[3][3]>>>>
            RtR == MatMul(Rt, R)
        IN  /\ ~rot_Ru[1].nan
            /\ \A i, j \in 1..3 : Near(RtR[i][j], IF i = j THEN 10000 ELSE 0, 100)
            /\ Near(Det(R), 10000, 100)
            /\ rot_Ru[1].u = SubSeq(rot_params, 4, 6)

\* C11, its case: a call with three non-zero rotation parameters and a non-zero
\* translation, whose R is far from the identity
C11_Witness ==
    /\ rot_pc = "returned"
    /\ \A k \in 1..3 : rot_params[k] # 0
    /\ rot_params[4] # 0
    /\ rot_Ru[1].R[1][1] < 5000

\* ------------------------------------------- claims on compare_results.main
\* C15 as stated, taken for logs of finished runs with numeric scores: when the
\* pair file is there and at least one listed pair has a log in all three
\* output directories, main ends without an exception, the summary file is
\* written and holds an Average row, and the row of every such pair shows what
\* parse_tmalign_log made of its official log, N/A four times when there is none.
C15_AsStated ==
    LET n        == Len(cmp_fs.pairs)
        complete == {i \in 1..n : Absent \notin {cmp_fs.pairs[i].g3, cmp_fs.pairs[i].g5,
                                                 cmp_fs.pairs[i].g7}}
        numeric  == \A i \in complete :
                       \A log \in {cmp_fs.pairs[i].g3, cmp_fs.pairs[i].g5, cmp_fs.pairs[i].g7} :
                          LET r == parse_gemini_log(log.lines)
                          IN  NA \notin {r.len, r.rmsd, r.tm1, r.tm2}
    IN  (cmp_pc \in {"finished", "returned", "crashed"} /\ complete # {} /\ numeric) =>
            /\ cmp_pc = "finished"
            /\ cmp_exc = None
            /\ cmp_summary.written
            /\ \E k \in 1..Len(cmp_summary.lines) : cmp_summary.lines[k].kind = "average"
            /\ \A i \in complete :
                  \E k \in 1..Len(cmp_summary.lines) :
                     /\ cmp_summary.lines[k].kind = "row"
                     /\ cmp_summary.lines[k].pair = i
                     /\ cmp_summary.lines[k].official
                        = parse_tmalign_log(cmp_fs.pairs[i].official)

====
